---- MODULE Spec2Model ----
(***************************************************************************)
(* TradeSentinel: the PnL calculator (pnl_calc.py, ui_sections.py), the    *)
(* statistics library (metrics.py) and the metrics aggregator              *)
(* (metrics_service.py).                                                   *)
(*                                                                         *)
(* Numbers.  The program computes in IEEE-754 doubles (numpy.float64).  A  *)
(* value is a record [k, n, d]: k = "fin" is the rational n/d in lowest    *)
(* terms with d > 0, k = "nan" is NaN (pandas' missing value and the       *)
(* library's undefined sentinel), k = "inf" / "ninf" are +/- infinity.     *)
(* Finite arithmetic is exact; rounding and overflow of doubles are not    *)
(* modelled.  Results that are irrational (a ratio with a square root, a   *)
(* 252/len-th power) are kept as finite symbolic values, k = "sqrt" and    *)
(* k = "pow", that record the operands the code combined.                  *)
(***************************************************************************)
EXTENDS Integers, Sequences, FiniteSets, TLC

VARIABLES
    price_data,    \* dict ticker -> DataFrame, as a sequence of entries in insertion order
    quantities,    \* dict ticker -> quantity held
    pnl_df,        \* the table calculate_pnl returned
    combined_df,   \* render_block: the long-format PnL time series
    metrics_in,    \* the table compute_portfolio_metrics was last called with
    returns,       \* compute_portfolio_metrics: its local `returns`
    metrics,       \* the dict compute_portfolio_metrics last returned
    pc,            \* the step of the page run: the next function to be called
    warnings,      \* the per-ticker messages printed or shown so far, in order
    summary,       \* what render_portfolio_summary last showed
    series,        \* statistics library: the pd.Series a function is applied to
    scale,         \* the finite values of `series` are in units of 10^-scale
    confidence_level, \* the confidence level VaR and CVaR are called with, in percent
    risk_free_rate, \* the annual risk-free rate a ratio is called with, same units
    wide_df,    \* statistics library: the wide price table correlation_matrix is applied to
    fn,            \* the statistics function last applied
    out,           \* what it returned
    tickers,       \* ensure_prices: the list it was called with
    prices,        \* ensure_prices: its dict `prices`, as a sequence of entries
    sector_cache,  \* ensure_data._sector_cache, a module global
    at,            \* ensure_prices: the position in `tickers` of the next iteration
    downloads,     \* what yf.download answered in this call, in order
    lookups,       \* the accesses to the sector service in this call, in order
    log,           \* the warn and error messages of this call, in order
    calls,         \* the number of calls of ensure_prices so far
    fetch_pc,      \* "idle", "running" (in the loop) or "returned"
    request,       \* ensure_prices: the period and interval it was called with
    session_state, \* st.session_state: the session fields that are set
    called,        \* the handlers of state_manager called so far, in order
    portfolio      \* the table update_state was last called with

vars == <<price_data, quantities, pnl_df, combined_df, metrics_in, returns,
          metrics, pc, warnings, summary, series, scale, confidence_level, risk_free_rate,
          wide_df, fn, out, tickers, prices, sector_cache, at, downloads, lookups,
          log, calls, fetch_pc, request, session_state, called,
          portfolio>>

pipelineVars == <<price_data, quantities, pnl_df, combined_df, metrics_in,
                  returns, metrics, pc, warnings, summary>>
statsVars == <<series, scale, confidence_level, risk_free_rate, wide_df, fn, out>>
fetchVars == <<tickers, prices, sector_cache, at, downloads, lookups, log, calls, fetch_pc,
               request>>
sessionVars == <<session_state, called, portfolio>>

(***************************************************************************)
(* Bounds of the model.                                                    *)
(***************************************************************************)
MaxTime == 3      \* timestamps 1..MaxTime; a price table has at most MaxTime bars
MaxPrice == 1     \* close prices 0..MaxPrice
MaxQty == 1       \* quantities -MaxQty..MaxQty
MaxLen == 3       \* statistics library: series of at most MaxLen values
MaxVal == 2       \* statistics library: finite values -MaxVal..MaxVal
FineExp == 12     \* statistics library: the fine grid is multiples of 10^-FineExp
LowLevel == 50      \* statistics library: the second confidence level, in percent
MaxCell == 2      \* statistics library: the prices of a wide table are 0..MaxCell
MaxRate == 1      \* statistics library: risk-free rates 0, 252, .., 252 * MaxRate units
MaxTickers == 2   \* ensure_prices: lists of at most MaxTickers tickers
MaxBars == 2      \* ensure_prices: a download has at most MaxBars rows
MaxQuote == 1     \* ensure_prices: downloaded prices 1..MaxQuote
MaxCalls == 2     \* ensure_prices: at most MaxCalls calls in a session
MaxRows == 2      \* state_manager: a portfolio table has at most MaxRows rows
MaxHandlerCalls == 3 \* state_manager: at most MaxHandlerCalls handler calls in a session
MaxUpdates == 1   \* state_manager: at most MaxUpdates of them are update_state

Tickers == {"A", "B"}

(***************************************************************************)
(* IEEE-754 values and arithmetic                                          *)
(***************************************************************************)
Abs(x) == IF x < 0 THEN -x ELSE x

RECURSIVE Gcd(_, _)
Gcd(a, b) == IF b = 0 THEN a ELSE Gcd(b, a % b)

Fin(n, d) ==
    LET s == IF d < 0 THEN -1 ELSE 1
        g == Gcd(Abs(n), Abs(d))
    IN [k |-> "fin", n |-> (s * n) \div g, d |-> (s * d) \div g]

NaN == [k |-> "nan", n |-> 0, d |-> 1]
PosInf == [k |-> "inf", n |-> 1, d |-> 1]
NegInf == [k |-> "ninf", n |-> -1, d |-> 1]
Zero == Fin(0, 1)
One == Fin(1, 1)

IsNaN(a) == a.k = "nan"
IsFin(a) == a.k = "fin"
IsInf(a) == a.k \in {"inf", "ninf"}
\* -1, 0, 1: the sign of a value that is not NaN
Sgn(a) == IF a.n > 0 THEN 1 ELSE IF a.n < 0 THEN -1 ELSE 0
Signed(s) == IF s > 0 THEN PosInf ELSE NegInf

XNeg(a) ==
    CASE a.k = "fin" -> Fin(-a.n, a.d)
      [] a.k = "inf" -> NegInf
      [] a.k = "ninf" -> PosInf
      [] OTHER -> NaN

XAdd(a, b) ==
    CASE IsNaN(a) \/ IsNaN(b) -> NaN
      [] IsInf(a) /\ IsInf(b) -> IF a.k = b.k THEN a ELSE NaN
      [] IsInf(a) -> a
      [] IsInf(b) -> b
      [] OTHER -> Fin(a.n * b.d + b.n * a.d, a.d * b.d)

XSub(a, b) == XAdd(a, XNeg(b))

XMul(a, b) ==
    CASE IsNaN(a) \/ IsNaN(b) -> NaN
      [] IsInf(a) \/ IsInf(b) ->
            IF Sgn(a) = 0 \/ Sgn(b) = 0 THEN NaN ELSE Signed(Sgn(a) * Sgn(b))
      [] OTHER -> Fin(a.n * b.n, a.d * b.d)

\* numpy division: x/0 is +/-inf, 0/0 is NaN; no exception is raised.  Every
\* zero divisor of the program is a sum, a difference or a running maximum
\* of one, which IEEE arithmetic makes +0, so the sign is the dividend's.
XDiv(a, b) ==
    CASE IsNaN(a) \/ IsNaN(b) -> NaN
      [] IsInf(a) /\ IsInf(b) -> NaN
      [] IsInf(b) -> Zero
      [] IsInf(a) -> IF Sgn(b) < 0 THEN XNeg(a) ELSE a
      [] b.n = 0 -> IF a.n = 0 THEN NaN ELSE Signed(Sgn(a))
      [] OTHER -> Fin(a.n * b.d, a.d * b.n)

XAbs(a) == IF IsNaN(a) THEN NaN ELSE IF Sgn(a) < 0 THEN XNeg(a) ELSE a

\* comparisons: any comparison with NaN is false
XLt(a, b) ==
    /\ ~IsNaN(a) /\ ~IsNaN(b)
    /\ CASE a.k = "inf" -> FALSE
         [] b.k = "ninf" -> FALSE
         [] a.k = "ninf" -> TRUE
         [] b.k = "inf" -> TRUE
         [] OTHER -> a.n * b.d < b.n * a.d

XEq(a, b) == ~IsNaN(a) /\ ~IsNaN(b) /\ a = b
XLe(a, b) == XLt(a, b) \/ XEq(a, b)

(***************************************************************************)
(* Input data: price tables and quantities                                 *)
(***************************************************************************)
Times == 1..MaxTime
Prices == 0..MaxPrice
Bars == [Time : Times, Close : Prices]

\* a price table: bars in chronological order (a DatetimeIndex that
\* yfinance returns sorted and without repeats)
Tables ==
    {s \in UNION {[1..n -> Bars] : n \in 0..MaxTime} :
        \A i \in 1..(Len(s) - 1) : s[i].Time < s[i + 1].Time}

\* a table with a row but without a 'Close' column
MalformedTables == {<<[Time |-> t]>> : t \in Times}

\* a value of the dict: None, or a DataFrame (possibly empty, possibly
\* without a 'Close' column)
None == [present |-> FALSE, rows |-> <<>>]
Frame(rows) == [present |-> TRUE, rows |-> rows]
Frames == {None} \cup {Frame(s) : s \in Tables \cup MalformedTables}

IsNone(df) == ~df.present
Empty(df) == df.rows = <<>>

\* df["Close"] raises KeyError
Raises(df) == "Close" \notin DOMAIN df.rows[1]

Orders == {<<"A", "B">>, <<"B", "A">>}
QuantityMaps == UNION {[S -> (-MaxQty)..MaxQty] : S \in SUBSET Tickers}

\* quantities.get(ticker, 0)
Get(q, ticker) == IF ticker \in DOMAIN q THEN q[ticker] ELSE 0

(***************************************************************************)
(* pnl_calc.py: calculate_pnl                                              *)
(***************************************************************************)
\* calculate_pnl's row without the `if start` guard and with a default
\* quantity of 1
SnapshotRowUnguarded(ticker, df, q) ==
    LET start == Fin(df.rows[1].Close, 1)
        end == Fin(df.rows[Len(df.rows)].Close, 1)
        qty == IF ticker \in DOMAIN q THEN q[ticker] ELSE 1
        pnl == XMul(XSub(end, start), Fin(qty, 1))
        pct == XMul(XDiv(XSub(end, start), start), Fin(100, 1))
    IN ("Ticker" :> ticker) @@ ("Quantity" :> qty) @@
       ("Start Price" :> start) @@ ("End Price" :> end) @@
       ("PnL ($)" :> pnl) @@ ("Change (%)" :> pct) @@
       ("Position Value ($)" :> XMul(end, Fin(qty, 1)))

SnapshotRow(ticker, df, q) ==
    LET start == Fin(df.rows[1].Close, 1)
        end == Fin(df.rows[Len(df.rows)].Close, 1)
        qty == Get(q, ticker)
        pnl == XMul(XSub(end, start), Fin(qty, 1))
        pct == IF start.n # 0
               THEN XMul(XDiv(XSub(end, start), start), Fin(100, 1))
               ELSE Zero
    IN ("Ticker" :> ticker) @@ ("Quantity" :> qty) @@
       ("Start Price" :> start) @@ ("End Price" :> end) @@
       ("PnL ($)" :> pnl) @@ ("Change (%)" :> pct) @@
       ("Position Value ($)" :> XMul(end, Fin(qty, 1)))

\* the row of a ticker filled with zeros
ZeroRow(ticker, q) ==
    ("Ticker" :> ticker) @@ ("Quantity" :> Get(q, ticker)) @@
    ("Start Price" :> Zero) @@ ("End Price" :> Zero) @@
    ("PnL ($)" :> Zero) @@ ("Change (%)" :> Zero) @@
    ("Position Value ($)" :> Zero)

\* calculate_pnl emitting a zero-filled row for a ticker without data
calculate_pnl_zero_filled(pd, q) ==
    [i \in 1..Len(pd) |->
        IF IsNone(pd[i].df) \/ Empty(pd[i].df) \/ Raises(pd[i].df)
        THEN ZeroRow(pd[i].ticker, q)
        ELSE SnapshotRow(pd[i].ticker, pd[i].df, q)]

\* calculate_pnl letting the exception of one ticker end the whole call
calculate_pnl_aborting(pd, q) ==
    LET Usable(e) == ~IsNone(e.df) /\ ~Empty(e.df)
        ok == SelectSeq(pd, Usable)
    IN IF \E i \in 1..Len(ok) : Raises(ok[i].df) THEN <<>>
       ELSE [i \in 1..Len(ok) |-> SnapshotRow(ok[i].ticker, ok[i].df, q)]

RECURSIVE calculate_pnl(_, _)
calculate_pnl(pd, q) ==
    IF pd = <<>> THEN <<>>
    ELSE LET e == Head(pd)
         IN IF IsNone(e.df) \/ Empty(e.df)
            THEN calculate_pnl(Tail(pd), q)
            ELSE IF Raises(e.df)
            THEN calculate_pnl(Tail(pd), q)
            ELSE <<SnapshotRow(e.ticker, e.df, q)>> \o calculate_pnl(Tail(pd), q)

\* the tickers whose try block raised, in the order of their messages
Raised(pd) ==
    LET bad == SelectSeq(pd, LAMBDA e : ~IsNone(e.df) /\ ~Empty(e.df) /\ Raises(e.df))
    IN [i \in 1..Len(bad) |-> bad[i].ticker]

\* print(f"Error calculating PnL for {ticker}: {e}")
calculate_pnl_printed(pd) ==
    [i \in 1..Len(Raised(pd)) |-> [by |-> "calculate_pnl", ticker |-> Raised(pd)[i]]]

(***************************************************************************)
(* ui_sections.py: render_block, the time-series build                     *)
(***************************************************************************)
\* the time-series rows with PnL measured from price 0 instead of from the
\* ticker's first price
TimeSeriesRowsFromZero(ticker, df, q) ==
    LET qty == Get(q, ticker)
    IN [i \in 1..Len(df.rows) |->
          LET price == Fin(df.rows[i].Close, 1)
          IN ("Time" :> df.rows[i].Time) @@ ("Ticker" :> ticker) @@
             ("Quantity" :> qty) @@ ("Price" :> price) @@
             ("Position Value ($)" :> XMul(price, Fin(qty, 1))) @@
             ("PnL" :> XMul(price, Fin(qty, 1)))]

TimeSeriesRows(ticker, df, q) ==
    LET qty == Get(q, ticker)
        first == Fin(df.rows[1].Close, 1)
    IN [i \in 1..Len(df.rows) |->
          LET price == Fin(df.rows[i].Close, 1)
          IN ("Time" :> df.rows[i].Time) @@ ("Ticker" :> ticker) @@
             ("Quantity" :> qty) @@ ("Price" :> price) @@
             ("Position Value ($)" :> XMul(price, Fin(qty, 1))) @@
             ("PnL" :> XMul(XSub(price, first), Fin(qty, 1)))]

RECURSIVE pnl_time_data(_, _)
pnl_time_data(pd, q) ==
    IF pd = <<>> THEN <<>>
    ELSE LET e == Head(pd)
         IN IF ~IsNone(e.df) /\ ~Empty(e.df)
            THEN IF Raises(e.df)
                 THEN pnl_time_data(Tail(pd), q)
                 ELSE TimeSeriesRows(e.ticker, e.df, q) \o pnl_time_data(Tail(pd), q)
            ELSE pnl_time_data(Tail(pd), q)

\* st.warning(f"{ticker}: Error building time series - {e}")
render_block_warned(pd) ==
    [i \in 1..Len(Raised(pd)) |-> [by |-> "render_block", ticker |-> Raised(pd)[i]]]

(***************************************************************************)
(* pandas Series helpers (skipna = True, the default, everywhere)          *)
(***************************************************************************)
NotNaN(x) == ~IsNaN(x)
dropna(s) == SelectSeq(s, NotNaN)

RECURSIVE XSum(_)
XSum(s) == IF s = <<>> THEN Zero ELSE XAdd(Head(s), XSum(Tail(s)))

RECURSIVE XProd(_)
XProd(s) == IF s = <<>> THEN One ELSE XMul(Head(s), XProd(Tail(s)))

\* Series.mean(): NaN of an empty or all-NaN series
mean(s) ==
    LET v == dropna(s)
    IN IF v = <<>> THEN NaN ELSE XDiv(XSum(v), Fin(Len(v), 1))

\* Series.std(ddof=0) squared: the mean of the squared deviations from the
\* mean (an infinite value makes a deviation inf - inf = NaN)
variance(s) ==
    LET v == dropna(s)
        avg == mean(s)
        sqr == [i \in 1..Len(v) |-> XMul(XSub(avg, v[i]), XSub(avg, v[i]))]
    IN IF v = <<>> THEN NaN ELSE XDiv(XSum(sqr), Fin(Len(v), 1))

\* Series.min(): NaN of an empty or all-NaN series
RECURSIVE MinOf(_)
MinOf(v) ==
    IF Len(v) = 1 THEN v[1]
    ELSE LET m == MinOf(Tail(v)) IN IF XLt(m, v[1]) THEN m ELSE v[1]

min(s) == LET v == dropna(s) IN IF v = <<>> THEN NaN ELSE MinOf(v)

\* Series.cummax(): the running maximum; a NaN entry stays NaN and is skipped
RECURSIVE CumMaxFrom(_, _)
CumMaxFrom(s, m) ==
    IF s = <<>> THEN <<>>
    ELSE LET x == Head(s)
             m2 == IF IsNaN(x) THEN m
                   ELSE IF m.k = "none" \/ XLt(m, x) THEN x ELSE m
         IN <<IF IsNaN(x) THEN NaN ELSE m2>> \o CumMaxFrom(Tail(s), m2)

cummax(s) == CumMaxFrom(s, [k |-> "none", n |-> 0, d |-> 1])

\* Series.cumprod(): the running product; a NaN entry stays NaN and is skipped
RECURSIVE CumProdFrom(_, _)
CumProdFrom(s, p) ==
    IF s = <<>> THEN <<>>
    ELSE LET x == Head(s)
             p2 == IF IsNaN(x) THEN p ELSE XMul(p, x)
         IN <<IF IsNaN(x) THEN NaN ELSE p2>> \o CumProdFrom(Tail(s), p2)

cumprod(s) == CumProdFrom(s, One)

\* ascending order of the values of a series without NaN
RECURSIVE Insert(_, _)
Insert(x, s) ==
    IF s = <<>> THEN <<x>>
    ELSE IF XLe(x, Head(s)) THEN <<x>> \o s
    ELSE <<Head(s)>> \o Insert(x, Tail(s))

RECURSIVE Sorted(_)
Sorted(s) == IF s = <<>> THEN <<>> ELSE Insert(Head(s), Sorted(Tail(s)))

\* Series.pct_change(): x[t] / x[t-1] - 1 after forward-filling NaN; the
\* first change is NaN
RECURSIVE ffill(_, _)
ffill(s, last) ==
    IF s = <<>> THEN <<>>
    ELSE LET x == IF IsNaN(Head(s)) THEN last ELSE Head(s)
         IN <<x>> \o ffill(Tail(s), x)

pct_change(s) ==
    LET f == ffill(s, NaN)
    IN [i \in 1..Len(s) |->
          IF i = 1 THEN NaN ELSE XSub(XDiv(f[i], f[i - 1]), One)]

(***************************************************************************)
(* Symbolic finite values                                                  *)
(***************************************************************************)
\* k = "sqrt": the value sign(n) * sqrt(|n| / d)
\* k = "pow":  the value ((n/d)^(252/len) - 1) / (mn/md)
IsFinite(a) == a.k \in {"fin", "sqrt", "pow"}

\* sqrt(c2) * m / sqrt(v) for v >= 0, as IEEE arithmetic gives it when m or v
\* is not finite or v is 0, and otherwise kept as its signed square c2 * m^2 / v
SqrtRatio(c2, m, v) ==
    CASE IsNaN(m) \/ IsNaN(v) -> NaN
      [] IsInf(m) /\ IsInf(v) -> NaN
      [] IsInf(v) -> Zero
      [] IsInf(m) -> m
      [] Sgn(v) = 0 -> IF Sgn(m) = 0 THEN NaN ELSE Signed(Sgn(m))
      [] OTHER ->
            LET sq == XMul(Fin(c2, 1), XDiv(XMul(m, m), v))
            IN [k |-> "sqrt", n |-> Sgn(m) * sq.n, d |-> sq.d]

(***************************************************************************)
(* metrics.py: the statistics library                                      *)
(***************************************************************************)
EpsExp == 12          \* the guards compare a standard deviation with 1e-12
TradingDays == 252    \* annualisation

RECURSIVE DivPow10(_, _)
DivPow10(x, e) == IF e = 0 THEN x ELSE DivPow10(x \div 10, e - 1)

\* std < 1e-12 for the standard deviation std = sqrt(v) * 10^-sc, v >= 0
\* finite: v * 10^(-2 sc) < 10^(-2 EpsExp), decided without large numbers
StdBelowEps(v, sc) ==
    LET e == 2 * EpsExp - 2 * sc
    IN IF e >= 0 THEN v.n <= DivPow10(v.d - 1, e)
       ELSE DivPow10(v.n, -e) < v.d

\* np.percentile(a, q): linear interpolation between the two order
\* statistics around the virtual index (len - 1) * q / 100
Lerp(a, b, t) ==
    IF XLt(t, Fin(1, 2))
    THEN XAdd(a, XMul(XSub(b, a), t))
    ELSE XSub(b, XMul(XSub(b, a), XSub(One, t)))

percentile(a, q) ==
    LET s == Sorted(a)
        n == Len(s)
        lo == ((n - 1) * q) \div 100
        gamma == Fin((n - 1) * q - 100 * lo, 100)
        hi == IF lo + 1 >= n THEN n - 1 ELSE lo + 1
    IN Lerp(s[lo + 1], s[hi + 1], gamma)

Confidence == 95      \* confidence_level = 0.95

calculate_var(rets, level) ==
    IF rets = <<>> \/ dropna(rets) = <<>> THEN NaN
    ELSE percentile(dropna(rets), 100 - level)

\* calculate_cvar averaging the returns strictly below the VaR
calculate_cvar_strict(rets, level) ==
    IF rets = <<>> \/ dropna(rets) = <<>> THEN NaN
    ELSE LET var == calculate_var(rets, level)
             Below(x) == XLt(x, var)
             cvar_values == SelectSeq(rets, Below)
         IN IF cvar_values = <<>> THEN NaN ELSE mean(cvar_values)

calculate_cvar(rets, level) ==
    IF rets = <<>> \/ dropna(rets) = <<>> THEN NaN
    ELSE LET var == calculate_var(rets, level)
             AtOrBelow(x) == XLe(x, var)
             cvar_values == SelectSeq(rets, AtOrBelow)
         IN IF cvar_values = <<>> THEN NaN ELSE mean(cvar_values)

\* returns - (risk_free_rate / 252)
Excess(rets, rf) ==
    [i \in 1..Len(rets) |-> XSub(rets[i], XDiv(rf, Fin(TradingDays, 1)))]

\* sharpe_ratio guarding only against a standard deviation of exactly 0
sharpe_ratio_zero_guard(rets, rf, sc) ==
    IF rets = <<>> \/ dropna(rets) = <<>> THEN NaN
    ELSE LET excess == Excess(rets, rf)
             var_excess == variance(excess)
         IN IF IsFin(var_excess) /\ var_excess.n = 0 THEN NaN
            ELSE SqrtRatio(TradingDays, mean(excess), var_excess)

sharpe_ratio(rets, rf, sc) ==
    IF rets = <<>> \/ dropna(rets) = <<>> THEN NaN
    ELSE LET excess == Excess(rets, rf)
             var_excess == variance(excess)
         IN IF IsFin(var_excess) /\ StdBelowEps(var_excess, sc) THEN NaN
            ELSE SqrtRatio(TradingDays, mean(excess), var_excess)

\* sortino_ratio with the mean of the downside returns as its numerator
sortino_ratio_downside_mean(rets, rf, sc) ==
    IF rets = <<>> \/ dropna(rets) = <<>> THEN NaN
    ELSE LET excess == Excess(rets, rf)
             Negative(x) == XLt(x, Zero)
             downside == SelectSeq(excess, Negative)
             downside_var == variance(downside)
         IN IF IsNaN(downside_var)
               \/ (IsFin(downside_var) /\ StdBelowEps(downside_var, sc))
            THEN NaN
            ELSE SqrtRatio(TradingDays, mean(downside), downside_var)

sortino_ratio(rets, rf, sc) ==
    IF rets = <<>> \/ dropna(rets) = <<>> THEN NaN
    ELSE LET excess == Excess(rets, rf)
             Negative(x) == XLt(x, Zero)
             downside == SelectSeq(excess, Negative)
             downside_var == variance(downside)
         IN IF IsNaN(downside_var)
               \/ (IsFin(downside_var) /\ StdBelowEps(downside_var, sc))
            THEN NaN
            ELSE SqrtRatio(TradingDays, mean(excess), downside_var)

\* max_drawdown with the undefined drawdowns counted as 0
max_drawdown_filled(cumulative_returns) ==
    LET rolling_max == cummax(cumulative_returns)
        drawdown == [i \in 1..Len(cumulative_returns) |->
                        LET x == XSub(XDiv(cumulative_returns[i], rolling_max[i]), One)
                        IN IF IsNaN(x) THEN Zero ELSE x]
    IN min(drawdown)

max_drawdown(cumulative_returns) ==
    LET rolling_max == cummax(cumulative_returns)
        drawdown == [i \in 1..Len(cumulative_returns) |->
                        XSub(XDiv(cumulative_returns[i], rolling_max[i]), One)]
    IN min(drawdown)

\* (base ** (252 / len) - 1) / abs(mdd) for mdd other than 0.  A negative
\* base has no real power with a fractional exponent (NaN); -inf keeps its
\* sign under an odd whole exponent only.
Annualised(base, len, mdd) ==
    LET whole == TradingDays % len = 0
        odd == whole /\ (TradingDays \div len) % 2 = 1
        power == CASE IsNaN(base) -> NaN
                   [] base.k = "inf" -> PosInf
                   [] base.k = "ninf" -> IF odd THEN NegInf ELSE PosInf
                   [] Sgn(base) < 0 /\ ~whole -> NaN
                   [] OTHER -> One
    IN CASE IsNaN(power) \/ IsNaN(mdd) -> NaN
         [] IsInf(power) -> IF IsInf(mdd) THEN NaN ELSE power
         [] IsInf(mdd) -> Zero
         [] OTHER -> [k |-> "pow", n |-> base.n, d |-> base.d, len |-> len,
                      mn |-> Abs(mdd.n), md |-> mdd.d]

\* calmar_ratio dividing by the maximum drawdown without the guard for 0
calmar_ratio_unguarded(rets) ==
    IF rets = <<>> \/ dropna(rets) = <<>> THEN NaN
    ELSE LET growth == [i \in 1..Len(rets) |-> XAdd(One, rets[i])]
             cumulative == cumprod(growth)
             mdd == max_drawdown(cumulative)
         IN Annualised(XProd(dropna(growth)), Len(rets), mdd)

calmar_ratio(rets) ==
    IF rets = <<>> \/ dropna(rets) = <<>> THEN NaN
    ELSE LET growth == [i \in 1..Len(rets) |-> XAdd(One, rets[i])]
             cumulative == cumprod(growth)
             mdd == max_drawdown(cumulative)
         IN IF XEq(mdd, Zero) THEN NaN
            ELSE Annualised(XProd(dropna(growth)), Len(rets), mdd)

\* win_loss_stats with the rates taken over the wins and losses only
win_loss_stats_decided(pnl_series) ==
    LET Win(x) == XLt(Zero, x)
        Loss(x) == XLt(x, Zero)
        wins == SelectSeq(pnl_series, Win)
        losses == SelectSeq(pnl_series, Loss)
        n == Len(wins) + Len(losses)
        win_rate == IF n > 0 THEN Fin(Len(wins), n) ELSE NaN
        loss_rate == IF n > 0 THEN Fin(Len(losses), n) ELSE NaN
        profit_factor ==
            IF XEq(XSum(losses), Zero)
            THEN IF XLt(Zero, XSum(wins)) THEN PosInf ELSE NaN
            ELSE XDiv(XSum(wins), XAbs(XSum(losses)))
    IN ("win_rate" :> win_rate) @@ ("loss_rate" :> loss_rate) @@
       ("profit_factor" :> profit_factor)

win_loss_stats(pnl_series) ==
    LET Win(x) == XLt(Zero, x)
        Loss(x) == XLt(x, Zero)
        wins == SelectSeq(pnl_series, Win)
        losses == SelectSeq(pnl_series, Loss)
        n == Len(pnl_series)
        win_rate == IF n > 0 THEN Fin(Len(wins), n) ELSE NaN
        loss_rate == IF n > 0 THEN Fin(Len(losses), n) ELSE NaN
        profit_factor ==
            IF XEq(XSum(losses), Zero)
            THEN IF XLt(Zero, XSum(wins)) THEN PosInf ELSE NaN
            ELSE XDiv(XSum(wins), XAbs(XSum(losses)))
    IN ("win_rate" :> win_rate) @@ ("loss_rate" :> loss_rate) @@
       ("profit_factor" :> profit_factor)

\* the order pandas gives to labels (sort=True)
RECURSIVE SortSet(_)
SortSet(S) ==
    IF S = {} THEN <<>>
    ELSE LET m == CHOOSE x \in S : \A y \in S : x <= y
         IN <<m>> \o SortSet(S \ {m})

TickerOrder == <<"A", "B">>

\* DataFrame.corr() for one pair of columns: Pearson correlation over the
\* rows where both values are finite, cov / sqrt(ssx * ssy), NaN when there
\* is no such row or the divisor is 0
pearson(a, b) ==
    LET both == SortSet({i \in 1..Len(a) : IsFin(a[i]) /\ IsFin(b[i])})
        x == [j \in 1..Len(both) |-> a[both[j]]]
        y == [j \in 1..Len(both) |-> b[both[j]]]
        mx == mean(x)
        my == mean(y)
        cov == XSum([i \in 1..Len(x) |-> XMul(XSub(x[i], mx), XSub(y[i], my))])
        ssx == XSum([i \in 1..Len(x) |-> XMul(XSub(x[i], mx), XSub(x[i], mx))])
        ssy == XSum([i \in 1..Len(y) |-> XMul(XSub(y[i], my), XSub(y[i], my))])
    IN IF Len(x) = 0 \/ XEq(XMul(ssx, ssy), Zero) THEN NaN
       ELSE SqrtRatio(1, cov, XMul(ssx, ssy))

\* correlation_matrix correlating the prices themselves
correlation_matrix_of_prices(price_df) ==
    LET cols == DOMAIN price_df
        len == IF cols = {} THEN 0 ELSE Len(price_df[CHOOSE c \in cols : TRUE])
        keep == {i \in 1..len : \A c \in cols : ~IsNaN(price_df[c][i])}
        rows == SortSet(keep)
        vals == [c \in cols |-> [j \in 1..Len(rows) |-> price_df[c][rows[j]]]]
    IN [p \in cols \X cols |-> pearson(vals[p[1]], vals[p[2]])]

\* a wide table is a dict column -> series over a common index
correlation_matrix(price_df) ==
    LET cols == DOMAIN price_df
        chg == [c \in cols |-> pct_change(price_df[c])]
        len == IF cols = {} THEN 0 ELSE Len(chg[CHOOSE c \in cols : TRUE])
        keep == {i \in 1..len : \A c \in cols : ~IsNaN(chg[c][i])}
        rows == SortSet(keep)
        rets == [c \in cols |-> [j \in 1..Len(rows) |-> chg[c][rows[j]]]]
    IN [p \in cols \X cols |-> pearson(rets[p[1]], rets[p[2]])]

(***************************************************************************)
(* metrics_service.py: compute_portfolio_metrics                           *)
(***************************************************************************)
TimesOf(rows) == {rows[i]["Time"] : i \in 1..Len(rows)}

\* rows.groupby("Time")[col].sum(): one sum per timestamp, in time order
groupby_sum(rows, col) ==
    LET idx == SortSet(TimesOf(rows))
        At(t) == LET Here(r) == r["Time"] = t
                     g == SelectSeq(rows, Here)
                 IN [i \in 1..Len(g) |-> g[i][col]]
    IN [i \in 1..Len(idx) |-> XSum(dropna(At(idx[i])))]

\* rows.pivot(index="Time", columns="Ticker", values="Price")
pivot(rows) ==
    LET idx == SortSet(TimesOf(rows))
        cols == {rows[i]["Ticker"] : i \in 1..Len(rows)}
        Cell(t, c) ==
            LET Here(r) == r["Time"] = t /\ r["Ticker"] = c
                g == SelectSeq(rows, Here)
            IN IF g = <<>> THEN NaN ELSE g[1]["Price"]
    IN [c \in cols |-> [i \in 1..Len(idx) |-> Cell(idx[i], c)]]

\* line 20: the local `returns`
portfolio_returns(rows) == dropna(pct_change(groupby_sum(rows, "PnL")))

EmptyDict == <<>>

\* the aggregator returning the empty dict for a single-row table as well
compute_portfolio_metrics_short(arg) ==
    IF IsNone(arg) \/ Len(arg.rows) <= 1 THEN EmptyDict
    ELSE LET rets == portfolio_returns(arg.rows)
             price_wide == pivot(arg.rows)
         IN ("VaR (95%)" :> calculate_var(rets, Confidence)) @@
            ("CVaR (95%)" :> calculate_cvar(rets, Confidence)) @@
            ("Sharpe" :> sharpe_ratio(rets, Zero, 0)) @@
            ("Sortino" :> sortino_ratio(rets, Zero, 0)) @@
            ("Calmar" :> calmar_ratio(rets)) @@
            ("Max Drawdown" :> max_drawdown(rets)) @@
            ("Correlation Matrix" :> correlation_matrix(price_wide))

compute_portfolio_metrics(arg) ==
    IF IsNone(arg) \/ Empty(arg) THEN EmptyDict
    ELSE LET rets == portfolio_returns(arg.rows)
             price_wide == pivot(arg.rows)
         IN ("VaR (95%)" :> calculate_var(rets, Confidence)) @@
            ("CVaR (95%)" :> calculate_cvar(rets, Confidence)) @@
            ("Sharpe" :> sharpe_ratio(rets, Zero, 0)) @@
            ("Sortino" :> sortino_ratio(rets, Zero, 0)) @@
            ("Calmar" :> calmar_ratio(rets)) @@
            ("Max Drawdown" :> max_drawdown(rets)) @@
            ("Correlation Matrix" :> correlation_matrix(price_wide))

(***************************************************************************)
(* ui_sections.py: render_portfolio_summary                                *)
(***************************************************************************)
ColumnOf(rows, name) == [i \in 1..Len(rows) |-> rows[i][name]]

\* what the summary shows: nothing yet, the three totals, or an exception
NoSummary == [state |-> "none", total_pnl |-> NaN, total_value |-> NaN, total_pct |-> NaN]
SummaryRaised == [state |-> "raises", total_pnl |-> NaN, total_value |-> NaN, total_pct |-> NaN]

\* `x if total_value else 0.0`: a float is falsy only when it is 0 (NaN is truthy)
IsTruthy(x) == ~(IsFin(x) /\ x.n = 0)

\* the summary without the guard on the total value
render_portfolio_summary_unguarded(rows) ==
    IF rows = <<>> THEN SummaryRaised
    ELSE LET pnl_sum == XSum(dropna(ColumnOf(rows, "PnL ($)")))
             value_sum == XSum(dropna(ColumnOf(rows, "Position Value ($)")))
         IN [state |-> "shown",
             total_pnl |-> pnl_sum,
             total_value |-> value_sum,
             total_pct |-> XMul(XDiv(pnl_sum, value_sum), Fin(100, 1))]

\* render_portfolio_summary(df_pnl) on the table with these rows; a table
\* without rows is pd.DataFrame([]), which has no columns, and
\* df_pnl["PnL ($)"] raises KeyError
render_portfolio_summary(rows) ==
    IF rows = <<>> THEN SummaryRaised
    ELSE LET pnl_sum == XSum(dropna(ColumnOf(rows, "PnL ($)")))
             value_sum == XSum(dropna(ColumnOf(rows, "Position Value ($)")))
         IN [state |-> "shown",
             total_pnl |-> pnl_sum,
             total_value |-> value_sum,
             total_pct |-> IF IsTruthy(value_sum)
                           THEN XMul(XDiv(pnl_sum, value_sum), Fin(100, 1))
                           ELSE Zero]

\* the default portfolio with two bars per ticker
ScenarioTickers == <<"NVDA", "MSFT", "GOOGL">>
ScenarioQuantities == ("NVDA" :> 100) @@ ("MSFT" :> 30) @@ ("GOOGL" :> 70)
ScenarioCloses == ("NVDA" :> <<100, 110>>) @@ ("MSFT" :> <<50, 45>>) @@ ("GOOGL" :> <<200, 220>>)
ScenarioData ==
    [i \in 1..Len(ScenarioTickers) |->
        [ticker |-> ScenarioTickers[i],
         df |-> Frame([b \in 1..2 |-> [Time |-> b, Close |-> ScenarioCloses[ScenarioTickers[i]][b]]])]]

(***************************************************************************)
(* ensure_data.py: the price downloader                                    *)
(*                                                                         *)
(* A downloaded DataFrame is a record: n index rows and the columns in     *)
(* order.  A column key is the tuple of its levels: one level for a flat   *)
(* Index, two (field, ticker) for a MultiIndex.                            *)
(***************************************************************************)
Column(key, vals) == [key |-> key, vals |-> vals]
DataFrame(multi, n, cols) == [multi |-> multi, n |-> n, columns |-> cols]

\* df.empty: some axis has length 0
IsEmpty(df) == df.n = 0 \/ Len(df.columns) = 0

\* name in df.columns (on a MultiIndex a label matches the first level)
HasColumn(df, name) == \E i \in 1..Len(df.columns) : df.columns[i].key[1] = name

\* df[name], for a name that is in df.columns
GetColumn(df, name) ==
    LET i == CHOOSE j \in 1..Len(df.columns) : df.columns[j].key[1] = name
    IN df.columns[i].vals

\* df[name] = vals: an existing column is replaced in place, a new one is
\* appended (on a MultiIndex under the key (name, ''))
SetColumn(df, name, vals) ==
    IF HasColumn(df, name)
    THEN [df EXCEPT !.columns =
             [i \in 1..Len(df.columns) |->
                 IF df.columns[i].key[1] = name
                 THEN Column(df.columns[i].key, vals)
                 ELSE df.columns[i]]]
    ELSE [df EXCEPT !.columns =
             Append(df.columns,
                    Column(IF df.multi THEN <<name, "">> ELSE <<name>>, vals))]

\* df.columns = [col[0] if isinstance(col, tuple) else col for col in df.columns]
FlattenColumns(df) ==
    IF df.multi
    THEN [df EXCEPT !.multi = FALSE,
                    !.columns = [i \in 1..Len(df.columns) |->
                                    Column(<<df.columns[i].key[1]>>, df.columns[i].vals)]]
    ELSE df

\* a scalar assigned to a column is broadcast over the index
Broadcast(df, v) == [i \in 1..df.n |-> v]

\* dict assignment d[k] = v on a dict kept as a sequence of entries: an
\* existing key keeps its place
SetItem(d, k, v) ==
    IF \E i \in 1..Len(d) : d[i].ticker = k
    THEN [i \in 1..Len(d) |-> IF d[i].ticker = k THEN [ticker |-> k, df |-> v] ELSE d[i]]
    ELSE Append(d, [ticker |-> k, df |-> v])

\* the sector service's answer to one access: it raises, or returns a value
\* that is a dict (with or without a 'sector' item) or something else
InfoDict(has, s) == [isdict |-> TRUE, has |-> has, sector |-> s]
NoItems == InfoDict(FALSE, "")
NotADict == [isdict |-> FALSE, has |-> FALSE, sector |-> ""]
Raise == [raises |-> TRUE, value |-> NotADict]
Return(v) == [raises |-> FALSE, value |-> v]

\* x or y, on the values above: None, '' and {} are falsy
Truthy(v) == v.isdict /\ v.has
SectorOf(info_dict) ==
    IF info_dict.isdict /\ info_dict.has /\ info_dict.sector # ""
    THEN info_dict.sector
    ELSE "Unknown"

Message(level, ticker, what) == [level |-> level, ticker |-> ticker, what |-> what]

\* the mutant of _get_sector that never reads the cache
get_sector_uncached(ticker, cache, ans) ==
    LET second == ans.get_info.raises
        failed == second /\ ans.info.raises
        info_dict == IF ~second THEN ans.get_info.value
                     ELSE IF Truthy(ans.info.value) THEN ans.info.value ELSE NoItems
        sector == IF failed THEN "Unknown" ELSE SectorOf(info_dict)
    IN [sector |-> sector,
        cache |-> [t \in DOMAIN cache \cup {ticker} |->
                      IF t = ticker THEN sector ELSE cache[t]],
        lookups |-> <<[ticker |-> ticker, api |-> "get_info", answer |-> ans.get_info]>>
                    \o (IF second THEN <<[ticker |-> ticker, api |-> "info", answer |-> ans.info]>> ELSE <<>>),
        log |-> IF failed THEN <<Message("warn", ticker, "sector")>> ELSE <<>>]

\* _get_sector(ticker) with _sector_cache = cache, when the service answers
\* ans.get_info to yf_t.get_info() and ans.info to a read of yf_t.info:
\* the sector, the cache afterwards, the accesses made and the messages
get_sector(ticker, cache, ans) ==
    IF ticker \in DOMAIN cache
    THEN [sector |-> cache[ticker], cache |-> cache, lookups |-> <<>>, log |-> <<>>]
    ELSE LET second == ans.get_info.raises
             failed == second /\ ans.info.raises
             info_dict == IF ~second THEN ans.get_info.value
                          ELSE IF Truthy(ans.info.value) THEN ans.info.value ELSE NoItems
             sector == IF failed THEN "Unknown" ELSE SectorOf(info_dict)
         IN [sector |-> sector,
             cache |-> [t \in DOMAIN cache \cup {ticker} |->
                           IF t = ticker THEN sector ELSE cache[t]],
             lookups |-> <<[ticker |-> ticker, api |-> "get_info", answer |-> ans.get_info]>>
                         \o (IF second THEN <<[ticker |-> ticker, api |-> "info", answer |-> ans.info]>> ELSE <<>>),
             log |-> IF failed THEN <<Message("warn", ticker, "sector")>> ELSE <<>>]

Kept(d, cache) == [prices |-> d, cache |-> cache, lookups |-> <<>>, log |-> <<>>]

\* the mutant of the loop body that keeps an empty download as a placeholder
ensure_prices_body_placeholder(ticker, d, cache, answer, ans) ==
    IF answer.raises
    THEN [Kept(d, cache) EXCEPT !.log = <<Message("error", ticker, "fetch")>>]
    ELSE IF ~HasColumn(answer.df, "Close") /\ ~HasColumn(answer.df, "Adj Close")
    THEN [Kept(SetItem(d, ticker, answer.df), cache) EXCEPT
             !.log = <<Message("error", ticker, "columns")>>]
    ELSE LET patched == IF HasColumn(answer.df, "Close")
                        THEN answer.df
                        ELSE SetColumn(answer.df, "Close", GetColumn(answer.df, "Adj Close"))
             s == get_sector(ticker, cache, ans)
             df == FlattenColumns(SetColumn(patched, "Sector", Broadcast(patched, s.sector)))
         IN [prices |-> SetItem(d, ticker, df),
             cache |-> s.cache,
             lookups |-> s.lookups,
             log |-> s.log]

\* the mutant of the loop body without the try block: a failure loses the
\* tables collected so far
ensure_prices_body_unguarded(ticker, d, cache, answer, ans) ==
    IF answer.raises \/ IsEmpty(answer.df)
       \/ (~HasColumn(answer.df, "Close") /\ ~HasColumn(answer.df, "Adj Close"))
    THEN [Kept(<<>>, cache) EXCEPT !.log = <<Message("error", ticker, "fetch")>>]
    ELSE LET patched == IF HasColumn(answer.df, "Close")
                        THEN answer.df
                        ELSE SetColumn(answer.df, "Close", GetColumn(answer.df, "Adj Close"))
             s == get_sector(ticker, cache, ans)
             df == FlattenColumns(SetColumn(patched, "Sector", Broadcast(patched, s.sector)))
         IN [prices |-> SetItem(d, ticker, df),
             cache |-> s.cache,
             lookups |-> s.lookups,
             log |-> s.log]

\* one iteration of the loop of ensure_prices for `ticker`, with prices = d
\* and _sector_cache = cache, when yf.download answers `answer` and the
\* sector service answers `ans`: the dict and the cache afterwards, the
\* accesses to the sector service and the messages logged
ensure_prices_body(ticker, d, cache, answer, ans) ==
    IF answer.raises
    THEN [Kept(d, cache) EXCEPT !.log = <<Message("error", ticker, "fetch")>>]
    ELSE IF IsEmpty(answer.df)
    THEN [Kept(d, cache) EXCEPT !.log = <<Message("warn", ticker, "empty")>>]
    ELSE IF ~HasColumn(answer.df, "Close") /\ ~HasColumn(answer.df, "Adj Close")
    THEN [Kept(d, cache) EXCEPT !.log = <<Message("error", ticker, "columns")>>]
    ELSE LET patched == IF HasColumn(answer.df, "Close")
                        THEN answer.df
                        ELSE SetColumn(answer.df, "Close", GetColumn(answer.df, "Adj Close"))
             s == get_sector(ticker, cache, ans)
             df == FlattenColumns(SetColumn(patched, "Sector", Broadcast(patched, s.sector)))
         IN [prices |-> SetItem(d, ticker, df),
             cache |-> s.cache,
             lookups |-> s.lookups,
             log |-> (IF HasColumn(answer.df, "Close")
                      THEN <<>>
                      ELSE <<Message("warn", ticker, "adj close")>>) \o s.log]

\* what yf.download can answer for a ticker
Quotes == 1..MaxQuote
QuoteColumns == UNION {[1..n -> Quotes] : n \in 1..MaxBars}
Volume(n) == Column(<<"Volume">>, [i \in 1..n |-> 0])
NoFrame == DataFrame(FALSE, 0, <<>>)
EmptyFrames == {NoFrame, DataFrame(FALSE, 0, <<Column(<<"Close">>, <<>>)>>)}
CloseFrames ==
    {DataFrame(FALSE, Len(q), <<Column(<<"Close">>, q), Volume(Len(q))>>) : q \in QuoteColumns}
AdjCloseFrames ==
    {DataFrame(FALSE, Len(q), <<Column(<<"Adj Close">>, q), Volume(Len(q))>>) : q \in QuoteColumns}
VolumeFrames == {DataFrame(FALSE, n, <<Volume(n)>>) : n \in 1..MaxBars}
MultiFrames(ticker) ==
    {DataFrame(TRUE, Len(q), <<Column(<<"Close", ticker>>, q),
                               Column(<<"Volume", ticker>>, [i \in 1..Len(q) |-> 0])>>)
        : q \in QuoteColumns}
Downloads(ticker) ==
    {[raises |-> TRUE, df |-> NoFrame]}
    \cup {[raises |-> FALSE, df |-> f] :
             f \in EmptyFrames \cup CloseFrames \cup AdjCloseFrames
                   \cup VolumeFrames \cup MultiFrames(ticker)}

\* what the sector service can answer to the two accesses of one lookup
Sectors == {"Tech", "Energy"}
InfoAnswers ==
    {Raise, Return(NotADict), Return(NoItems), Return(InfoDict(TRUE, ""))}
    \cup {Return(InfoDict(TRUE, s)) : s \in Sectors}
SectorAnswers ==
    {[get_info |-> a, info |-> Raise] : a \in InfoAnswers \ {Raise}}
    \cup {[get_info |-> Raise, info |-> b] : b \in InfoAnswers}

TickerLists == UNION {[1..n -> Tickers] : n \in 0..MaxTickers}

\* the defaults of ensure_prices(tickers, period="5d", interval="1d")
Request(period, interval) == [period |-> period, interval |-> interval]
DefaultRequest == Request("5d", "1d")

\* ensure_data has been imported and ensure_prices has not been called
FetchIdle ==
    /\ tickers = <<>>
    /\ prices = <<>>
    /\ sector_cache = <<>>
    /\ at = 1
    /\ downloads = <<>>
    /\ lookups = <<>>
    /\ log = <<>>
    /\ calls = 0
    /\ fetch_pc = "idle"
    /\ request = DefaultRequest

\* a new browser session: nothing is set in st.session_state
SessionIdle ==
    /\ session_state = <<>>
    /\ called = <<>>
    /\ portfolio = <<>>

(***************************************************************************)
(* state_manager.py: the session                                           *)
(*                                                                         *)
(* A text is the sequence of its characters.  A cell of the portfolio      *)
(* table is missing (None / NaN) or holds a value.                         *)
(***************************************************************************)
MissingCell == [missing |-> TRUE, text |-> <<>>, number |-> NaN]
TextCell(t) == [missing |-> FALSE, text |-> t, number |-> NaN]
NumberCell(x) == [missing |-> FALSE, text |-> <<>>, number |-> x]

\* str.strip(): leading and trailing blanks removed
RECURSIVE LStrip(_)
LStrip(t) == IF t # <<>> /\ Head(t) = " " THEN LStrip(Tail(t)) ELSE t
RECURSIVE RStrip(_)
RStrip(t) ==
    IF t # <<>> /\ t[Len(t)] = " " THEN RStrip(SubSeq(t, 1, Len(t) - 1)) ELSE t
Strip(t) == RStrip(LStrip(t))

\* float -> int of astype(int): truncation toward zero
Trunc(x) == IF x.n >= 0 THEN x.n \div x.d ELSE -((-x.n) \div x.d)

\* portfolio_df["Ticker"].dropna().astype(str).str.strip().tolist()
TickerList(portfolio_df) ==
    LET present == SelectSeq(portfolio_df, LAMBDA row : ~row["Ticker"].missing)
    IN [i \in 1..Len(present) |-> Strip(present[i]["Ticker"].text)]

\* pd.Series(portfolio_df["Quantity"]).fillna(0).astype(int): one whole
\* number per row of the table
QuantityList(portfolio_df) ==
    [i \in 1..Len(portfolio_df) |->
        IF portfolio_df[i]["Quantity"].missing THEN 0
        ELSE Trunc(portfolio_df[i]["Quantity"].number)]

\* dict(zip(keys, values)): pairs by position up to the shorter length, a
\* repeated key keeps its last value
Zip(ks, values) ==
    LET n == IF Len(ks) < Len(values) THEN Len(ks) ELSE Len(values)
        last(k) == CHOOSE i \in 1..n : ks[i] = k /\ \A j \in 1..n : ks[j] = k => j <= i
    IN [k \in {ks[i] : i \in 1..n} |-> values[last(k)]]

\* ensure_prices(ts, ...) as one call, with _sector_cache = cache, when
\* the i-th download is answered by dl[i] and a lookup made in the i-th
\* iteration by sa[i]
RECURSIVE ensure_prices_loop(_, _, _, _, _)
ensure_prices_loop(ts, acc, dl, sa, i) ==
    IF i > Len(ts) THEN acc
    ELSE LET r == ensure_prices_body(ts[i], acc.prices, acc.cache, dl[i], sa[i])
         IN ensure_prices_loop(ts,
                [prices |-> r.prices,
                 cache |-> r.cache,
                 downloads |-> Append(acc.downloads, [ticker |-> ts[i], answer |-> dl[i]]),
                 lookups |-> acc.lookups \o r.lookups,
                 log |-> acc.log \o r.log],
                dl, sa, i + 1)
ensure_prices(ts, cache, dl, sa) ==
    ensure_prices_loop(ts,
        [prices |-> <<>>, cache |-> cache, downloads |-> <<>>, lookups |-> <<>>,
         log |-> <<>>],
        dl, sa, 1)

\* state_manager.DEFAULT_PORTFOLIO
DefaultTickers == << <<"N", "V", "D", "A">>, <<"M", "S", "F", "T">>, <<"G", "O", "O", "G", "L">> >>
DefaultQuantities == <<100, 30, 70>>

\* the portfolio tables of the sidebar editor
TickerCells == {MissingCell, TextCell(<<"A">>), TextCell(<<" ", "B">>)}
QuantityCells == {MissingCell, NumberCell(Fin(1, 1)), NumberCell(Fin(5, 2))}
PortfolioRows == {("Ticker" :> t) @@ ("Quantity" :> q) : t \in TickerCells, q \in QuantityCells}
PortfolioTables == UNION {[1..n -> PortfolioRows] : n \in 0..MaxRows}
Periods == {"1mo", "1d"}
Intervals == {"1d", "30m"}

\* what yf.download and the sector service answer during a session
SessionDownloads ==
    {[raises |-> FALSE, df |-> NoFrame],
     [raises |-> FALSE,
      df |-> DataFrame(FALSE, 1, <<Column(<<"Close">>, <<1>>), Volume(1)>>)]}
SessionSectorAnswers ==
    {[get_info |-> Raise, info |-> Raise],
     [get_info |-> Return(InfoDict(TRUE, "Tech")), info |-> Raise]}

(***************************************************************************)
(* The system                                                              *)
(***************************************************************************)
Init ==
    /\ \E o \in Orders, f \in [Tickers -> Frames] :
          price_data = [i \in 1..Len(o) |-> [ticker |-> o[i], df |-> f[o[i]]]]
    /\ quantities \in QuantityMaps
    /\ pnl_df = <<>>
    /\ combined_df = <<>>
    /\ metrics_in = None
    /\ returns = <<>>
    /\ metrics = <<>>
    /\ pc = "calculate_pnl"
    /\ warnings = <<>>
    /\ summary = NoSummary
    /\ series = <<>>
    /\ scale = 0
    /\ confidence_level = Confidence
    /\ risk_free_rate = Zero
    /\ wide_df = <<>>
    /\ fn = "none"
    /\ out = NaN
    /\ FetchIdle
    /\ SessionIdle

\* One run of the page calls calculate_pnl and then render_block on the
\* session's data (dashboard.py runs from top to bottom: the snapshot at
\* lines 273-296, the time series and the metrics at lines 360-471).
CalculatePnl ==
    /\ pc = "calculate_pnl"
    /\ pnl_df' = calculate_pnl(price_data, quantities)
    /\ warnings' = warnings \o calculate_pnl_printed(price_data)
    /\ pc' = "render_block"
    /\ UNCHANGED <<price_data, quantities, combined_df, metrics_in, returns, metrics, summary>>
    /\ UNCHANGED statsVars
    /\ UNCHANGED fetchVars
    /\ UNCHANGED sessionVars

\* render_block: the time series is built and, when it has rows, handed to
\* compute_portfolio_metrics
RenderBlock ==
    /\ pc = "render_block"
    /\ LET rows == pnl_time_data(price_data, quantities)
       IN IF rows # <<>>
          THEN /\ combined_df' = rows
               /\ metrics_in' = Frame(rows)
               /\ returns' = portfolio_returns(rows)
               /\ metrics' = compute_portfolio_metrics(Frame(rows))
          ELSE UNCHANGED <<combined_df, metrics_in, returns, metrics>>
    /\ warnings' = warnings \o render_block_warned(price_data)
    /\ pc' = "idle"
    /\ UNCHANGED <<price_data, quantities, pnl_df, summary>>
    /\ UNCHANGED statsVars
    /\ UNCHANGED fetchVars
    /\ UNCHANGED sessionVars

\* a caller hands compute_portfolio_metrics no table or an empty one
ComputePortfolioMetrics ==
    /\ pc = "idle"
    /\ \E arg \in {None, Frame(<<>>)} :
          /\ metrics_in' = arg
          /\ metrics' = compute_portfolio_metrics(arg)
    /\ returns' = <<>>
    /\ UNCHANGED <<price_data, quantities, pnl_df, combined_df, pc, warnings, summary>>
    /\ UNCHANGED statsVars
    /\ UNCHANGED fetchVars
    /\ UNCHANGED sessionVars

Next == CalculatePnl \/ RenderBlock \/ ComputePortfolioMetrics

Spec == Init /\ [][Next]_vars

(***************************************************************************)
(* The statistics library applied to a series                              *)
(***************************************************************************)
Values == {NaN, PosInf, NegInf} \cup {Fin(i, 1) : i \in (-MaxVal)..MaxVal}
SeriesSet == UNION {[1..n -> Values] : n \in 0..MaxLen}
\* annual rates whose daily part, rate / 252, is a whole number of units
Rates == {Fin(TradingDays * i, 1) : i \in 0..MaxRate}
\* the default confidence level and a lower one, in percent
Levels == {Confidence, LowLevel}

PipelineIdle ==
    /\ price_data = <<>>
    /\ quantities = <<>>
    /\ pnl_df = <<>>
    /\ combined_df = <<>>
    /\ metrics_in = None
    /\ returns = <<>>
    /\ metrics = <<>>
    /\ pc = "idle"
    /\ warnings = <<>>
    /\ summary = NoSummary

\* every function of the library, on series of plain values
InitStats ==
    /\ PipelineIdle
    /\ series \in SeriesSet
    /\ scale = 0
    /\ confidence_level \in Levels
    /\ risk_free_rate \in Rates
    /\ wide_df = <<>>
    /\ fn = "none"
    /\ out = NaN
    /\ FetchIdle
    /\ SessionIdle

\* the two volatility ratios, also on series whose values are multiples of
\* 10^-FineExp, where a standard deviation can lie between 0 and 1e-12
InitVol ==
    /\ PipelineIdle
    /\ series \in SeriesSet
    /\ scale \in {0, FineExp}
    /\ confidence_level = Confidence
    /\ risk_free_rate \in Rates
    /\ wide_df = <<>>
    /\ fn = "none"
    /\ out = NaN
    /\ FetchIdle
    /\ SessionIdle

Apply(name, result) ==
    /\ fn = "none"
    /\ fn' = name
    /\ out' = result
    /\ UNCHANGED <<series, scale, confidence_level, risk_free_rate, wide_df>>
    /\ UNCHANGED pipelineVars
    /\ UNCHANGED fetchVars
    /\ UNCHANGED sessionVars

ApplyVar == Apply("calculate_var", calculate_var(series, confidence_level))
ApplyCvar == Apply("calculate_cvar", calculate_cvar(series, confidence_level))
ApplySharpe == Apply("sharpe_ratio", sharpe_ratio(series, risk_free_rate, scale))
ApplySortino == Apply("sortino_ratio", sortino_ratio(series, risk_free_rate, scale))
ApplyCalmar == Apply("calmar_ratio", calmar_ratio(series))
ApplyMaxDrawdown == Apply("max_drawdown", max_drawdown(series))
ApplyWinLoss == Apply("win_loss_stats", win_loss_stats(series))

NextStats ==
    \/ ApplyVar
    \/ ApplyCvar
    \/ ApplySharpe
    \/ ApplySortino
    \/ ApplyCalmar
    \/ ApplyMaxDrawdown
    \/ ApplyWinLoss

NextVol == ApplySharpe \/ ApplySortino

\* correlation_matrix on wide tables of both tickers: a cell is a price or,
\* where a ticker has no bar at that timestamp, NaN
Cells == {NaN} \cup {Fin(i, 1) : i \in 0..MaxCell}
WideTables == UNION {[Tickers -> [1..n -> Cells]] : n \in 0..MaxTime}

InitCorr ==
    /\ PipelineIdle
    /\ series = <<>>
    /\ scale = 0
    /\ confidence_level = Confidence
    /\ risk_free_rate = Zero
    /\ wide_df \in WideTables
    /\ fn = "none"
    /\ out = NaN
    /\ FetchIdle
    /\ SessionIdle

ApplyCorrelation ==
    /\ fn = "none"
    /\ fn' = "correlation_matrix"
    /\ out' = correlation_matrix(wide_df)
    /\ UNCHANGED <<series, scale, confidence_level, risk_free_rate, wide_df>>
    /\ UNCHANGED pipelineVars
    /\ UNCHANGED fetchVars
    /\ UNCHANGED sessionVars

NextCorr == ApplyCorrelation

SpecStats == InitStats /\ [][NextStats]_vars
SpecVol == InitVol /\ [][NextVol]_vars
SpecCorr == InitCorr /\ [][NextCorr]_vars

(***************************************************************************)
(* The downloader in a session                                             *)
(***************************************************************************)
StatsIdle ==
    /\ series = <<>>
    /\ scale = 0
    /\ confidence_level = Confidence
    /\ risk_free_rate = Zero
    /\ wide_df = <<>>
    /\ fn = "none"
    /\ out = NaN

InitFetch == PipelineIdle /\ StatsIdle /\ FetchIdle /\ SessionIdle

\* ensure_prices(tickers, period, interval) is called (init_state and
\* update_state of state_manager.py): prices = {} and the loop is entered;
\* with no tickers it returns at once.  _sector_cache is what the earlier
\* calls left.
EnsurePricesCall ==
    /\ fetch_pc \in {"idle", "returned"}
    /\ calls < MaxCalls
    /\ \E ts \in TickerLists :
          /\ tickers' = ts
          /\ fetch_pc' = IF ts = <<>> THEN "returned" ELSE "running"
    /\ prices' = <<>>
    /\ at' = 1
    /\ downloads' = <<>>
    /\ lookups' = <<>>
    /\ log' = <<>>
    /\ calls' = calls + 1
    /\ UNCHANGED <<sector_cache, request>>
    /\ UNCHANGED sessionVars
    /\ UNCHANGED pipelineVars
    /\ UNCHANGED statsVars

\* one iteration of the loop; after the last one ensure_prices returns prices
EnsurePricesIteration ==
    /\ fetch_pc = "running"
    /\ \E answer \in Downloads(tickers[at]), ans \in SectorAnswers :
          LET r == ensure_prices_body(tickers[at], prices, sector_cache, answer, ans)
          IN /\ prices' = r.prices
             /\ sector_cache' = r.cache
             /\ downloads' = Append(downloads, [ticker |-> tickers[at], answer |-> answer])
             /\ lookups' = lookups \o r.lookups
             /\ log' = log \o r.log
    /\ at' = at + 1
    /\ fetch_pc' = IF at = Len(tickers) THEN "returned" ELSE "running"
    /\ UNCHANGED <<tickers, calls, request>>
    /\ UNCHANGED sessionVars
    /\ UNCHANGED pipelineVars
    /\ UNCHANGED statsVars

NextFetch == EnsurePricesCall \/ EnsurePricesIteration

SpecFetch == InitFetch /\ [][NextFetch]_vars

(***************************************************************************)
(* The session: init_state and update_state                                *)
(***************************************************************************)
InitSession == PipelineIdle /\ StatsIdle /\ FetchIdle /\ SessionIdle

\* the five fields with the period left at init_state's value
FieldsDefaultPeriod(active_tickers, active_quantities, period, interval, data) ==
    ("active_tickers" :> active_tickers) @@ ("active_quantities" :> active_quantities) @@
    ("active_period" :> "1mo") @@ ("active_interval" :> interval) @@ ("data" :> data)

\* the assignments to the five session fields
Fields(active_tickers, active_quantities, period, interval, data) ==
    ("active_tickers" :> active_tickers) @@ ("active_quantities" :> active_quantities) @@
    ("active_period" :> period) @@ ("active_interval" :> interval) @@ ("data" :> data)

\* the call ensure_prices(ts, period, interval) has run from its first line
\* to its return with the outcome r
Fetch(r, ts, period, interval) ==
    /\ tickers' = ts
    /\ request' = Request(period, interval)
    /\ prices' = r.prices
    /\ sector_cache' = r.cache
    /\ at' = Len(ts) + 1
    /\ downloads' = r.downloads
    /\ lookups' = r.lookups
    /\ log' = r.log
    /\ calls' = calls + 1
    /\ fetch_pc' = "returned"

\* init_state()
InitState ==
    /\ Len(called) < MaxHandlerCalls
    /\ called' = Append(called, "init_state")
    /\ IF "active_tickers" \notin DOMAIN session_state
       THEN \E dl \in [1..Len(DefaultTickers) -> SessionDownloads],
               sa \in [1..Len(DefaultTickers) -> SessionSectorAnswers] :
               LET r == ensure_prices(DefaultTickers, sector_cache, dl, sa)
               IN /\ Fetch(r, DefaultTickers, "1mo", "1d")
                  /\ session_state' = Fields(DefaultTickers,
                                             Zip(DefaultTickers, DefaultQuantities),
                                             "1mo", "1d", r.prices)
       ELSE UNCHANGED <<session_state, fetchVars>>
    /\ UNCHANGED portfolio
    /\ UNCHANGED pipelineVars
    /\ UNCHANGED statsVars

\* update_state(portfolio_df, period, interval)
UpdateState ==
    /\ Len(called) < MaxHandlerCalls
    /\ Cardinality({i \in 1..Len(called) : called[i] = "update_state"}) < MaxUpdates
    /\ called' = Append(called, "update_state")
    /\ \E portfolio_df \in PortfolioTables, period \in Periods, interval \in Intervals :
          LET ts == TickerList(portfolio_df)
          IN \E dl \in [1..Len(ts) -> SessionDownloads],
                sa \in [1..Len(ts) -> SessionSectorAnswers] :
                LET r == ensure_prices(ts, sector_cache, dl, sa)
                IN /\ Fetch(r, ts, period, interval)
                   /\ session_state' = Fields(ts, Zip(ts, QuantityList(portfolio_df)),
                                              period, interval, r.prices)
                   /\ portfolio' = portfolio_df
    /\ UNCHANGED pipelineVars
    /\ UNCHANGED statsVars

NextSession == InitState \/ UpdateState

SpecSession == InitSession /\ [][NextSession]_vars

(***************************************************************************)
(* The snapshot and its summary                                            *)
(***************************************************************************)
\* the session's data and quantities: the small tables, or the default
\* portfolio
InitSummary ==
    /\ \/ /\ \E o \in Orders, f \in [Tickers -> Frames] :
                price_data = [i \in 1..Len(o) |-> [ticker |-> o[i], df |-> f[o[i]]]]
          /\ quantities \in QuantityMaps
       \/ /\ price_data = ScenarioData
          /\ quantities = ScenarioQuantities
    /\ pnl_df = <<>>
    /\ combined_df = <<>>
    /\ metrics_in = None
    /\ returns = <<>>
    /\ metrics = <<>>
    /\ pc = "calculate_pnl"
    /\ warnings = <<>>
    /\ summary = NoSummary
    /\ StatsIdle
    /\ FetchIdle
    /\ SessionIdle

\* the summary of the table calculate_pnl returned
RenderPortfolioSummary ==
    /\ pc = "render_block"
    /\ summary' = render_portfolio_summary(pnl_df)
    /\ UNCHANGED <<price_data, quantities, pnl_df, combined_df, metrics_in, returns,
                   metrics, pc, warnings>>
    /\ UNCHANGED statsVars
    /\ UNCHANGED fetchVars
    /\ UNCHANGED sessionVars

NextSummary == CalculatePnl \/ RenderPortfolioSummary

SpecSummary == InitSummary /\ [][NextSummary]_vars

(***************************************************************************)
(* Properties                                                              *)
(***************************************************************************)
HasSeries(e) ==
    e.df.present /\ e.df.rows # <<>> /\ "Close" \in DOMAIN e.df.rows[1]
Held(ticker) == IF ticker \in DOMAIN quantities THEN quantities[ticker] ELSE 0
IntVal(i) == [k |-> "fin", n |-> i, d |-> 1]
Called == metrics_in.present \/ pc = "idle"

\* the snapshot values of entry e of the input map, in integer arithmetic
SnapshotOf(e, r) ==
    LET start == e.df.rows[1].Close
        end == e.df.rows[Len(e.df.rows)].Close
        chg == r["Change (%)"]
    IN /\ r["PnL ($)"] = IntVal((end - start) * Held(e.ticker))
       /\ r["Position Value ($)"] = IntVal(end * Held(e.ticker))
       /\ IF start = 0 THEN chg = IntVal(0)
          ELSE chg.k = "fin" /\ chg.n * start = (end - start) * 100 * chg.d

\* C1: once calculate_pnl has run, every ticker with a non-empty series has a
\* snapshot row, and each such row has PnL ($) = (end - start) x quantity,
\* Position Value ($) = end x quantity and Change (%) = 0 when start = 0 and
\* (end - start) / start x 100 otherwise, with quantity 0 for a ticker that
\* has no entry in quantities.
C1_SnapshotRow ==
    pc # "calculate_pnl" =>
        \A i \in 1..Len(price_data) :
            HasSeries(price_data[i]) =>
                /\ \E j \in 1..Len(pnl_df) :
                      pnl_df[j]["Ticker"] = price_data[i].ticker
                /\ \A j \in 1..Len(pnl_df) :
                      pnl_df[j]["Ticker"] = price_data[i].ticker =>
                          SnapshotOf(price_data[i], pnl_df[j])

\* a snapshot with a row of a held ticker whose price rose from 0, and a row
\* of a ticker without a quantity entry whose price changed
C1_Witness ==
    /\ pc # "calculate_pnl"
    /\ \E j \in 1..Len(pnl_df) :
          /\ pnl_df[j]["Start Price"] = IntVal(0)
          /\ pnl_df[j]["PnL ($)"] # IntVal(0)
    /\ \E j \in 1..Len(pnl_df) :
          /\ pnl_df[j]["Ticker"] \notin DOMAIN quantities
          /\ pnl_df[j]["Change (%)"] # IntVal(0)

\* C2: in the time series, every bar of a ticker has a row with
\* PnL = (price - that ticker's own first price) x quantity, and every row of a
\* ticker at its own first timestamp has PnL exactly 0.
C2_TimeSeriesPnl ==
    combined_df # <<>> =>
        \A i \in 1..Len(price_data) :
            HasSeries(price_data[i]) =>
                LET e == price_data[i]
                    first == e.df.rows[1]
                IN /\ \A b \in 1..Len(e.df.rows) :
                         \E j \in 1..Len(combined_df) :
                            /\ combined_df[j]["Ticker"] = e.ticker
                            /\ combined_df[j]["Time"] = e.df.rows[b].Time
                            /\ combined_df[j]["PnL"] =
                                 IntVal((e.df.rows[b].Close - first.Close) * Held(e.ticker))
                   /\ \A j \in 1..Len(combined_df) :
                         (/\ combined_df[j]["Ticker"] = e.ticker
                          /\ combined_df[j]["Time"] = first.Time)
                            => combined_df[j]["PnL"] = IntVal(0)

\* two tickers that start at different timestamps, each held and each with a
\* row whose PnL is not 0
C2_Witness ==
    /\ combined_df # <<>>
    /\ Len(price_data) = 2
    /\ HasSeries(price_data[1]) /\ HasSeries(price_data[2])
    /\ price_data[1].df.rows[1].Time # price_data[2].df.rows[1].Time
    /\ \A t \in Tickers :
          \E j \in 1..Len(combined_df) :
             combined_df[j]["Ticker"] = t /\ combined_df[j]["PnL"] # IntVal(0)

NonEmptyInput == metrics_in.present /\ metrics_in.rows # <<>>
PositionValues == groupby_sum(metrics_in.rows, "Position Value ($)")

\* C3: the returns compute_portfolio_metrics works on are the percentage
\* changes of the per-timestamp sums of Position Value ($), the undefined ones
\* dropped.
C3_ReturnsOfPositionValue ==
    NonEmptyInput => returns = dropna(pct_change(PositionValues))

\* C4: the Max Drawdown field is max_drawdown of the per-timestamp sums of
\* Position Value ($).
C4_DrawdownOfValueSeries ==
    NonEmptyInput => metrics["Max Drawdown"] = max_drawdown(PositionValues)

ScalarKeys ==
    {"VaR (95%)", "CVaR (95%)", "Sharpe", "Sortino", "Calmar", "Max Drawdown"}

\* C5 as claimed: the bundle is empty for an absent, an empty and a
\* single-row table.
C5_EmptyBundleForSingleRow ==
    (Called /\ (~metrics_in.present \/ Len(metrics_in.rows) <= 1))
        => DOMAIN metrics = {}

\* C5, amended: the bundle is empty for an absent and for an empty table; for
\* a single-row table it is a full bundle whose six scalars are all the
\* undefined sentinel.
C5_EmptyBundle ==
    Called =>
        /\ (~metrics_in.present \/ metrics_in.rows = <<>>) => DOMAIN metrics = {}
        /\ (metrics_in.present /\ Len(metrics_in.rows) = 1) =>
              /\ DOMAIN metrics = ScalarKeys \cup {"Correlation Matrix"}
              /\ \A key \in ScalarKeys : metrics[key] = NaN

\* the bundle of a single-row table
C5_Witness ==
    /\ metrics_in.present
    /\ Len(metrics_in.rows) = 1
    /\ DOMAIN metrics # {}

\* C6: no scalar field of a bundle is +infinity or -infinity.
C6_NoInfiniteScalar ==
    NonEmptyInput =>
        \A key \in ScalarKeys : metrics[key].k \notin {"inf", "ninf"}

\* C7: a non-empty bundle has all ten fields: the six scalars, the correlation
\* matrix, and the win rate, loss rate and profit factor.
C7_TenFields ==
    DOMAIN metrics # {} =>
        /\ ScalarKeys \cup {"Correlation Matrix"} \subseteq DOMAIN metrics
        /\ Cardinality(DOMAIN metrics) = 10

AllMissing(s) == \A i \in 1..Len(s) : IsNaN(s[i])

\* C8: on an empty or all-missing series every statistic is the undefined
\* sentinel (for win_loss_stats: each of its three values).
C8_UndefinedOnMissing ==
    (fn # "none" /\ AllMissing(series)) =>
        IF fn = "win_loss_stats"
        THEN \A key \in DOMAIN out : out[key] = NaN
        ELSE out = NaN

AllFinite(s) == \A i \in 1..Len(s) : s[i].k = "fin"
Constant(s) == \A i, j \in 1..Len(s) : s[i] = s[j]
NonPositive(x) == x.k = "ninf" \/ (x.k = "fin" /\ x.n <= 0)

\* C9 as claimed: max_drawdown is <= 0 on a non-constant series and exactly 0
\* on every constant one.
C9_ZeroOnEveryFlatSeries ==
    (fn = "max_drawdown" /\ series # <<>> /\ AllFinite(series)) =>
        IF Constant(series) THEN out = IntVal(0) ELSE NonPositive(out)

\* C9, amended: on a series of finite values max_drawdown is <= 0 when the
\* series is not constant, exactly 0 when it is constant at a value other
\* than 0, and the undefined sentinel when it is flat at 0.
C9_MaxDrawdownSign ==
    (fn = "max_drawdown" /\ series # <<>> /\ AllFinite(series)) =>
        IF ~Constant(series) THEN NonPositive(out)
        ELSE IF series[1] # IntVal(0) THEN out = IntVal(0)
        ELSE out = NaN

\* a series of two or more zeros, on which max_drawdown is undefined
C9_Witness ==
    /\ fn = "max_drawdown"
    /\ Len(series) >= 2
    /\ \A i \in 1..Len(series) : series[i] = IntVal(0)
    /\ out = NaN

RECURSIVE SumN(_)
SumN(v) == IF v = <<>> THEN 0 ELSE Head(v).n + SumN(Tail(v))

RECURSIVE SumSq(_)
SumSq(v) == IF v = <<>> THEN 0 ELSE Head(v).n * Head(v).n + SumSq(Tail(v))

RECURSIVE Pow10(_)
Pow10(e) == IF e = 0 THEN 1 ELSE 10 * Pow10(e - 1)

Present(s) == SelectSeq(s, LAMBDA x : x.k # "nan")

\* the present values less the daily rate risk_free_rate / 252
ExcessOf(s) ==
    LET p == Present(s)
    IN [i \in 1..Len(p) |->
          IF p[i].k = "fin"
          THEN IntVal(p[i].n - risk_free_rate.n \div 252)
          ELSE p[i]]

\* C10: sharpe_ratio is the undefined sentinel when the standard deviation of
\* the present excess returns (return - rf / 252) is below 1e-12 (so for
\* every all-equal series), and otherwise sqrt(252) x mean / stdev.  With n
\* excess values of sum s1 and sum of squares s2, in units of 10^-scale:
\* stdev^2 = (n s2 - s1^2) / n^2 units^2 and (sqrt(252) mean / stdev)^2 =
\* 252 s1^2 / (n s2 - s1^2).  An infinite value makes the standard
\* deviation, and the ratio, NaN.
C10_Sharpe ==
    fn = "sharpe_ratio" =>
        LET v == ExcessOf(series)
            n == Len(v)
            s1 == SumN(v)
            dev == n * SumSq(v) - s1 * s1
            below == IF scale = 0 THEN dev = 0
                     ELSE dev < n * n * Pow10(2 * (scale - EpsExp))
            sign == IF s1 > 0 THEN 1 ELSE IF s1 < 0 THEN -1 ELSE 0
        IN IF v = <<>> \/ ~AllFinite(v) \/ below THEN out = NaN
           ELSE /\ out.k = "sqrt"
                /\ out.d > 0
                /\ out.n * dev = sign * 252 * s1 * s1 * out.d

\* a series of distinct values whose standard deviation is below 1e-12,
\* with a risk-free rate other than 0
C10_Witness ==
    /\ fn = "sharpe_ratio"
    /\ AllFinite(series)
    /\ ~Constant(series)
    /\ risk_free_rate # IntVal(0)
    /\ out = NaN

Downside(v) == SelectSeq(v, LAMBDA x : x.k = "ninf" \/ (x.k = "fin" /\ x.n < 0))

\* C11: sortino_ratio is the undefined sentinel when no excess return is
\* negative or the standard deviation of the negative excess returns is
\* below 1e-12 (so when exactly one is negative, or all negative ones are
\* equal), and otherwise sqrt(252) x mean(all excess) / stdev(negative
\* excess).  With n excess values of sum s1, of which m are negative with
\* sum q1 and sum of squares q2, in units of 10^-scale: stdev^2 =
\* (m q2 - q1^2) / m^2 and the squared ratio is
\* 252 s1^2 m^2 / (n^2 (m q2 - q1^2)).  A return of -infinity makes the
\* standard deviation, and the ratio, NaN; a return of +infinity makes the
\* mean, and the ratio, +infinity.
C11_Sortino ==
    fn = "sortino_ratio" =>
        LET v == ExcessOf(series)
            neg == Downside(v)
            n == Len(v)
            m == Len(neg)
            s1 == SumN(v)
            dev == m * SumSq(neg) - SumN(neg) * SumN(neg)
            below == IF scale = 0 THEN dev = 0
                     ELSE dev < m * m * Pow10(2 * (scale - EpsExp))
            sign == IF s1 > 0 THEN 1 ELSE IF s1 < 0 THEN -1 ELSE 0
        IN IF neg = <<>> \/ ~AllFinite(neg) \/ below THEN out = NaN
           ELSE IF ~AllFinite(v) THEN out = PosInf
           ELSE LET sq == Fin(252 * s1 * s1 * m * m, n * n * dev)
                IN out = [k |-> "sqrt", n |-> sign * sq.n, d |-> sq.d]

\* two distinct negative excess returns beside a positive one, with a
\* risk-free rate other than 0
C11_Witness ==
    /\ fn = "sortino_ratio"
    /\ AllFinite(series)
    /\ risk_free_rate # IntVal(0)
    /\ \E i \in 1..Len(series) : series[i].n > risk_free_rate.n \div 252
    /\ out.k = "sqrt"
    /\ out.n # 0

Wins(s) == SelectSeq(s, LAMBDA x : x.k = "inf" \/ (x.k = "fin" /\ x.n > 0))
Losses(s) == SelectSeq(s, LAMBDA x : x.k = "ninf" \/ (x.k = "fin" /\ x.n < 0))
IsRatio(x, num, den) == x.k = "fin" /\ x.d > 0 /\ x.n * den = num * x.d

AtMost(x, y) == x.n * y.d <= y.n * x.d

\* C13: calculate_cvar is the mean of exactly the returns that are <= the
\* VaR calculate_var gives for the same series and level, which is never
\* greater than that VaR, and it is the undefined sentinel when the VaR is
\* undefined or no return is at or below it.  The mean of returns that
\* include an infinite one is that infinity, or NaN when both infinities
\* are among them.
C13_Cvar ==
    fn = "calculate_cvar" =>
        LET var == calculate_var(series, confidence_level)
            Some(kind) == \E i \in 1..Len(series) : series[i].k = kind
            tail == SelectSeq(series,
                        LAMBDA x : x.k = "fin" /\ var.k = "fin" /\ AtMost(x, var))
        IN CASE IsNaN(var) -> out = NaN
             [] var = PosInf -> out = (IF Some("ninf") THEN NaN ELSE PosInf)
             [] var = NegInf -> out = NegInf
             [] OTHER ->
                   /\ var.k = "fin"
                   /\ IF Some("ninf") THEN out = NegInf
                      ELSE IF tail = <<>> THEN out = NaN
                      ELSE /\ IsRatio(out, SumN(tail), Len(tail))
                           /\ AtMost(out, var)

\* a series with returns on both sides of its VaR, two different ones at or
\* below it
C13_Witness ==
    /\ fn = "calculate_cvar"
    /\ out.k = "fin"
    /\ AllFinite(series)
    /\ LET var == calculate_var(series, confidence_level)
       IN /\ \E i \in 1..Len(series) : ~AtMost(series[i], var)
          /\ \E i \in 1..Len(series) : AtMost(series[i], var) /\ series[i] # out

\* the running products of 1 + r over the whole-numbered returns of v
RECURSIVE CumFrom(_, _)
CumFrom(v, acc) ==
    IF v = <<>> THEN <<>>
    ELSE <<acc * (1 + Head(v).n)>> \o CumFrom(Tail(v), acc * (1 + Head(v).n))

\* the running maxima of the integers of c
RECURSIVE PeakFrom(_, _)
PeakFrom(c, top) ==
    IF c = <<>> THEN <<>>
    ELSE LET t == IF Head(c) > top THEN Head(c) ELSE top
         IN <<t>> \o PeakFrom(Tail(c), t)

\* the drawdowns value / peak - 1 that are defined, as values n/d
Drawdowns(c) ==
    LET peak == PeakFrom(c, c[1])
    IN {Fin(c[i] - peak[i], peak[i]) : i \in {j \in 1..Len(c) : peak[j] # 0}}

\* C14: calmar_ratio is the undefined sentinel when the returns are empty or
\* all missing, and when the maximum drawdown of the cumulative product of
\* 1 + returns is 0 (so for every series without a negative return) or is
\* itself undefined; otherwise it is the annualised compounded return
\* prod(1 + returns) ^ (252 / len(returns)) - 1 divided by the absolute value
\* of that maximum drawdown.
C14_Calmar ==
    (fn = "calmar_ratio" /\ AllFinite(Present(series))) =>
        LET p == Present(series)
            cum == CumFrom(p, 1)
            dd == Drawdowns(cum)
            mdd == CHOOSE x \in dd : \A y \in dd : AtMost(x, y)
        IN /\ (p = <<>> \/ dd = {}) => out = NaN
           /\ (\A i \in 1..Len(p) : p[i].n >= 0) => out = NaN
           /\ (p # <<>> /\ dd # {}) =>
                 IF mdd.n = 0 THEN out = NaN
                 ELSE out = [k |-> "pow", n |-> cum[Len(cum)], d |-> 1,
                             len |-> Len(series),
                             mn |-> Abs(mdd.n), md |-> mdd.d]

\* a series that loses after a gain, with a missing value
C14_Witness ==
    /\ fn = "calmar_ratio"
    /\ out.k = "pow"
    /\ Len(Present(series)) < Len(series)
    /\ \E i \in 1..Len(series) : series[i].k = "fin" /\ series[i].n > 0

\* the last price of column c at or before row t, NaN when there is none
RECURSIVE Filled(_, _)
Filled(c, t) ==
    IF t = 0 THEN NaN
    ELSE IF IsNaN(wide_df[c][t]) THEN Filled(c, t - 1) ELSE wide_df[c][t]

\* the percentage change of column c at row t
Ret(c, t) == XSub(XDiv(Filled(c, t), Filled(c, t - 1)), One)

\* the rows where no column's change is missing, in order
KeptRows ==
    LET n == Len(wide_df[CHOOSE c \in DOMAIN wide_df : TRUE])
    IN SortSet({t \in 1..n : \A c \in DOMAIN wide_df : ~IsNaN(Ret(c, t))})

RetsOf(c) == [j \in 1..Len(KeptRows) |-> Ret(c, KeptRows[j])]

\* Pearson's r of two series of finite values from their raw moments, as the
\* signed square sign(cov) cov^2 / (varx vary); NaN when a variance is 0
MomentCorr(x, y) ==
    LET n == Fin(Len(x), 1)
        Dot(u, v) == XSum([i \in 1..Len(u) |-> XMul(u[i], v[i])])
        cov == XSub(XMul(n, Dot(x, y)), XMul(XSum(x), XSum(y)))
        vx == XSub(XMul(n, Dot(x, x)), XMul(XSum(x), XSum(x)))
        vy == XSub(XMul(n, Dot(y, y)), XMul(XSum(y), XSum(y)))
    IN IF Len(x) = 0 \/ vx.n = 0 \/ vy.n = 0 THEN NaN
       ELSE LET sq == XDiv(XMul(cov, cov), XMul(vx, vy))
            IN [k |-> "sqrt", n |-> Sgn(cov) * sq.n, d |-> sq.d]

UnitCorr == [k |-> "sqrt", n |-> 1, d |-> 1]
FiniteOf(s) == SelectSeq(s, LAMBDA x : x.k = "fin")

\* C15 as claimed: the matrix is symmetric and its diagonal entry is 1 for
\* every ticker whose return series is not constant.
C15_DiagonalOneIfNotConstant ==
    fn = "correlation_matrix" =>
        \A a, b \in DOMAIN wide_df :
            /\ out[<<a, b>>] = out[<<b, a>>]
            /\ ~Constant(RetsOf(a)) => out[<<a, a>>] = UnitCorr

\* C15, amended: the matrix is the Pearson correlation of the percentage
\* changes of the prices, over the rows where no ticker's change is missing;
\* it is symmetric; its diagonal entry is 1 for every ticker whose changes
\* are all finite and not constant, and the undefined sentinel for every
\* ticker whose finite changes are constant or fewer than two.
C15_CorrelationOfReturns ==
    fn = "correlation_matrix" =>
        \A a, b \in DOMAIN wide_df :
            /\ out[<<a, b>>] = out[<<b, a>>]
            /\ (AllFinite(RetsOf(a)) /\ AllFinite(RetsOf(b)))
                  => out[<<a, b>>] = MomentCorr(RetsOf(a), RetsOf(b))
            /\ (AllFinite(RetsOf(a)) /\ ~Constant(RetsOf(a)))
                  => out[<<a, a>>] = UnitCorr
            /\ Constant(FiniteOf(RetsOf(a))) => out[<<a, a>>] = NaN

\* two tickers with finite changes that are negatively correlated, one of
\* them with a missing price
C15_Witness ==
    /\ fn = "correlation_matrix"
    /\ \A c \in DOMAIN wide_df : AllFinite(RetsOf(c)) /\ out[<<c, c>>] = UnitCorr
    /\ \E c \in DOMAIN wide_df : \E t \in 1..Len(wide_df[c]) : IsNaN(wide_df[c][t])
    /\ out[<<"A", "B">>].k = "sqrt"
    /\ out[<<"A", "B">>].n < 0

TickersOf(rows) == [j \in 1..Len(rows) |-> rows[j]["Ticker"]]

\* C16: calculate_pnl's table has exactly one row for each ticker of the
\* input map whose series is present, non-empty and readable, in the
\* insertion order of the map, and no row for a ticker whose series is None
\* or empty; a ticker with a single bar has its row, with PnL and change 0.
C16_RowsInInsertionOrder ==
    pc # "calculate_pnl" =>
        LET kept == SelectSeq(price_data, HasSeries)
        IN /\ TickersOf(pnl_df) = [i \in 1..Len(kept) |-> kept[i].ticker]
           /\ \A i \in 1..Len(price_data) :
                 (~price_data[i].df.present \/ price_data[i].df.rows = <<>>)
                    => \A j \in 1..Len(pnl_df) :
                          pnl_df[j]["Ticker"] # price_data[i].ticker
           /\ \A i \in 1..Len(kept) :
                 Len(kept[i].df.rows) = 1 =>
                    /\ pnl_df[i]["PnL ($)"] = IntVal(0)
                    /\ pnl_df[i]["Change (%)"] = IntVal(0)

\* both tickers have a row, in an insertion order that is not the
\* alphabetical one, and one of them has a single bar
C16_Witness ==
    /\ pc # "calculate_pnl"
    /\ TickersOf(pnl_df) = <<"B", "A">>
    /\ \E i \in 1..2 : Len(price_data[i].df.rows) = 1

\* the entry's table has rows but no 'Close' column: reading it raises
Unreadable(e) ==
    e.df.present /\ e.df.rows # <<>> /\ "Close" \notin DOMAIN e.df.rows[1]

Warned(by, ticker) ==
    \E w \in 1..Len(warnings) : warnings[w] = [by |-> by, ticker |-> ticker]

\* C17: a ticker whose series cannot be read is skipped with a message, by
\* calculate_pnl and by the time-series build, and every other ticker with a
\* usable series still has its snapshot row and its time-series rows, with
\* the values it would have had alone; messages are only about unreadable
\* tickers.
C17_FailureIsLocal ==
    /\ \A w \in 1..Len(warnings) :
          \E i \in 1..Len(price_data) :
             Unreadable(price_data[i]) /\ price_data[i].ticker = warnings[w].ticker
    /\ \A i \in 1..Len(price_data) :
          Unreadable(price_data[i]) =>
             LET bad == price_data[i].ticker
                 Others == {k \in 1..Len(price_data) : HasSeries(price_data[k])}
             IN /\ pc # "calculate_pnl" =>
                      /\ Warned("calculate_pnl", bad)
                      /\ \A j \in 1..Len(pnl_df) : pnl_df[j]["Ticker"] # bad
                      /\ \A k \in Others :
                            \E j \in 1..Len(pnl_df) :
                               /\ pnl_df[j]["Ticker"] = price_data[k].ticker
                               /\ SnapshotOf(price_data[k], pnl_df[j])
                /\ pc = "idle" =>
                      /\ Warned("render_block", bad)
                      /\ \A j \in 1..Len(combined_df) : combined_df[j]["Ticker"] # bad
                      /\ \A k \in Others :
                            LET e == price_data[k]
                            IN \A b \in 1..Len(e.df.rows) :
                                  \E j \in 1..Len(combined_df) :
                                     /\ combined_df[j]["Ticker"] = e.ticker
                                     /\ combined_df[j]["Time"] = e.df.rows[b].Time
                                     /\ combined_df[j]["PnL"] =
                                          IntVal((e.df.rows[b].Close - e.df.rows[1].Close)
                                                 * Held(e.ticker))

\* the first ticker of the map is unreadable and the second, which is held
\* and whose price moved, has its row and its time series
C17_Witness ==
    /\ pc = "idle"
    /\ Len(price_data) = 2
    /\ Unreadable(price_data[1])
    /\ HasSeries(price_data[2])
    /\ Len(warnings) = 2
    /\ Len(pnl_df) = 1 /\ pnl_df[1]["PnL ($)"] # IntVal(0)
    /\ Len(combined_df) >= 2

(***************************************************************************)
(* ensure_prices                                                           *)
(***************************************************************************)
KeysOf(d) == {d[i].ticker : i \in 1..Len(d)}
\* the downloads of the call that were made for ticker t
DownloadsFor(t) == {j \in 1..Len(downloads) : downloads[j].ticker = t}
\* a download that gave nothing to use: it raised, it is empty, or it has
\* neither a Close nor an Adj Close column
Unusable(answer) ==
    \/ answer.raises
    \/ answer.df.n = 0
    \/ answer.df.columns = <<>>
    \/ \A c \in 1..Len(answer.df.columns) :
          answer.df.columns[c].key[1] \notin {"Close", "Adj Close"}
FlatColumn(df, name) == {c \in 1..Len(df.columns) : df.columns[c].key = <<name>>}
\* the price column a usable download carries: Close, else Adj Close
PriceOf(df) ==
    LET named(name) == {c \in 1..Len(df.columns) : df.columns[c].key[1] = name}
        c == IF named("Close") # {} THEN CHOOSE x \in named("Close") : TRUE
             ELSE CHOOSE x \in named("Adj Close") : TRUE
    IN df.columns[c].vals

\* C18: every entry of the map ensure_prices returns is a table with at
\* least one row, flat column names, one Close column holding the prices
\* of one of the ticker's usable downloads (its Close, or its Adj Close
\* when it has no Close) and one Sector column holding one sector name on
\* every row; and a ticker whose every download raised, was empty or had
\* neither Close nor Adj Close is not a key of the map.
C18_PricesEntries ==
    fetch_pc = "returned" =>
        /\ \A i, j \in 1..Len(prices) : prices[i].ticker = prices[j].ticker => i = j
        /\ \A i \in 1..Len(prices) :
              LET df == prices[i].df
              IN /\ df.n >= 1
                 /\ ~df.multi
                 /\ \A c \in 1..Len(df.columns) :
                       Len(df.columns[c].key) = 1 /\ Len(df.columns[c].vals) = df.n
                 /\ Cardinality(FlatColumn(df, "Close")) = 1
                 /\ Cardinality(FlatColumn(df, "Sector")) = 1
                 /\ \E s \in Sectors \cup {"Unknown"} :
                       \A c \in FlatColumn(df, "Sector") :
                           \A r \in 1..df.n : df.columns[c].vals[r] = s
                 /\ \E j \in DownloadsFor(prices[i].ticker) :
                       /\ ~Unusable(downloads[j].answer)
                       /\ \A c \in FlatColumn(df, "Close") :
                             df.columns[c].vals = PriceOf(downloads[j].answer.df)
        /\ \A t \in Tickers :
              (\A j \in DownloadsFor(t) : Unusable(downloads[j].answer))
                  => t \notin KeysOf(prices)

\* a call has returned a table whose Close was taken from Adj Close, and
\* the other ticker of the list, whose download was empty, is not a key
C18_Witness ==
    /\ fetch_pc = "returned"
    /\ \E i \in 1..Len(prices) :
          \E j \in DownloadsFor(prices[i].ticker) :
              /\ ~Unusable(downloads[j].answer)
              /\ \A c \in 1..Len(downloads[j].answer.df.columns) :
                    downloads[j].answer.df.columns[c].key[1] # "Close"
              /\ FlatColumn(prices[i].df, "Close") # {}
    /\ \E k \in 1..Len(downloads) :
          /\ ~downloads[k].answer.raises
          /\ downloads[k].answer.df.n = 0
          /\ downloads[k].ticker \notin KeysOf(prices)

\* C19: when ensure_prices returns, it has called yf.download once for
\* every position of the list, in order, whatever the earlier downloads
\* did, and every ticker one of whose downloads was usable is a key of the
\* returned map; while the loop runs, every position before the current one
\* has been fetched and the usable ones are already keys.
C19_FailuresAreLocal ==
    fetch_pc \in {"running", "returned"} =>
        /\ fetch_pc = "returned" => Len(downloads) = Len(tickers)
        /\ fetch_pc = "running" => Len(downloads) = at - 1
        /\ \A j \in 1..Len(downloads) :
              /\ downloads[j].ticker = tickers[j]
              /\ ~Unusable(downloads[j].answer) => tickers[j] \in KeysOf(prices)

\* a call has returned in which the download of the first ticker raised and
\* the second ticker of the list, fetched after it, has its table in the map
C19_Witness ==
    /\ fetch_pc = "returned"
    /\ \E j, k \in 1..Len(downloads) :
          /\ j < k
          /\ downloads[j].ticker # downloads[k].ticker
          /\ downloads[j].answer.raises
          /\ ~Unusable(downloads[k].answer)
          /\ downloads[k].ticker \in KeysOf(prices)
          /\ downloads[j].ticker \notin KeysOf(prices)

\* the accesses to the sector service made for ticker t, as positions of a log
AccessesFor(l, t) == {i \in 1..Len(l) : l[i].ticker = t}
\* the sector name an answer of the service carries, "Unknown" if it raised
\* or carries none
Answered(a) ==
    IF ~a.raises /\ a.value.isdict /\ a.value.has /\ a.value.sector \in Sectors
    THEN a.value.sector
    ELSE "Unknown"
\* the Sector column of ticker t's table in the dict d holds s on every row
SectorIs(d, t, s) ==
    \E i \in 1..Len(d) :
        /\ d[i].ticker = t
        /\ \E c \in FlatColumn(d[i].df, "Sector") :
              d[i].df.columns[c].vals = [r \in 1..d[i].df.n |-> s]

\* C20 as stated: in one call, at most one access to the sector service
\* per distinct ticker
C20_OneAccessPerTicker ==
    \A t \in Tickers : Cardinality(AccessesFor(lookups, t)) <= 1

\* C20: in every iteration of a call, the sector service is accessed only
\* for the iteration's ticker, only when its download was usable, and only
\* if the ticker is not memoized (no lookup for it earlier in the call or
\* in an earlier call); a lookup is one get_info call followed, only when
\* that call raised, by one read of the info attribute.  After a lookup
\* the ticker's table is in the map with the Sector the last access
\* answered, "Unknown" if it failed, and that value is memoized; without a
\* lookup a usable download is stored with the memoized value.
C20_SectorLookups ==
    [][fetch_pc = "running" =>
          LET t == tickers[at]
              fresh == SubSeq(lookups', Len(lookups) + 1, Len(lookups'))
              usable == ~Unusable(downloads'[Len(downloads')].answer)
          IN /\ SubSeq(lookups', 1, Len(lookups)) = lookups
             /\ \A i \in 1..Len(fresh) : fresh[i].ticker = t
             /\ fresh # <<>> =>
                   /\ usable
                   /\ t \notin DOMAIN sector_cache
                   /\ AccessesFor(lookups, t) = {}
                   /\ fresh[1].api = "get_info"
                   /\ Len(fresh) <= 2
                   /\ Len(fresh) = 2 => fresh[1].answer.raises /\ fresh[2].api = "info"
                   /\ Len(fresh) = 1 => ~fresh[1].answer.raises
                   /\ t \in KeysOf(prices')
                   /\ SectorIs(prices', t, Answered(fresh[Len(fresh)].answer))
                   /\ t \in DOMAIN sector_cache'
                   /\ sector_cache'[t] = Answered(fresh[Len(fresh)].answer)
             /\ (fresh = <<>> /\ usable) =>
                   /\ t \in DOMAIN sector_cache
                   /\ SectorIs(prices', t, sector_cache[t])
                   /\ sector_cache' = sector_cache
    ]_vars

\* a call for the same ticker twice has returned: both downloads were
\* usable, the one lookup, made for the first occurrence, failed on both
\* accesses, and the ticker's table is in the map with Sector "Unknown"
C20_Witness ==
    /\ fetch_pc = "returned"
    /\ Len(tickers) = 2
    /\ tickers[1] = tickers[2]
    /\ \A j \in 1..Len(downloads) : ~Unusable(downloads[j].answer)
    /\ Len(lookups) = 2
    /\ lookups[1].answer.raises
    /\ lookups[2].answer.raises
    /\ SectorIs(prices, tickers[1], "Unknown")

\* the last access to the sector service logged for ticker t
LastAccess(l, t) ==
    l[CHOOSE i \in AccessesFor(l, t) : \A j \in AccessesFor(l, t) : j <= i]

\* C21: the sector memo is scoped to one call: when ensure_prices returns,
\* the Sector of every table of the map is what the sector service
\* answered to a lookup made during this call ("Unknown" if that lookup
\* failed), never a value memoized by an earlier call.
C21_SectorFromThisCall ==
    fetch_pc = "returned" =>
        \A t \in KeysOf(prices) :
            /\ AccessesFor(lookups, t) # {}
            /\ SectorIs(prices, t, Answered(LastAccess(lookups, t).answer))

(***************************************************************************)
(* render_portfolio_summary                                                *)
(***************************************************************************)
\* the whole-number PnL and end value of one ticker's position
PositionPnl(e) ==
    (e.df.rows[Len(e.df.rows)].Close - e.df.rows[1].Close) * Get(quantities, e.ticker)
PositionValue(e) == e.df.rows[Len(e.df.rows)].Close * Get(quantities, e.ticker)
RECURSIVE TotalOf(_, _)
TotalOf(F(_), entries) ==
    IF entries = <<>> THEN 0
    ELSE (IF HasSeries(Head(entries)) THEN F(Head(entries)) ELSE 0)
         + TotalOf(F, Tail(entries))

\* C22: the summary of the table calculate_pnl returned shows total PnL =
\* the sum over the tickers with a price series of (end - start) x quantity,
\* total position value = the sum of end x quantity, and total change % =
\* total PnL / total position value x 100, or 0 when the total position
\* value is 0; for the default portfolio with prices 100->110, 50->45,
\* 200->220 the PnL column is [1000, -150, 1400] and the totals are 2250
\* and 27750.
C22_SummaryTotals ==
    (pc = "render_block" /\ summary.state = "shown") =>
        LET total_pnl == TotalOf(PositionPnl, price_data)
            total_value == TotalOf(PositionValue, price_data)
        IN /\ summary.total_pnl = Fin(total_pnl, 1)
           /\ summary.total_value = Fin(total_value, 1)
           /\ summary.total_pct = IF total_value = 0 THEN Zero
                                  ELSE Fin(100 * total_pnl, total_value)
           /\ (price_data = ScenarioData /\ quantities = ScenarioQuantities) =>
                 /\ ColumnOf(pnl_df, "PnL ($)") = <<Fin(1000, 1), Fin(-150, 1), Fin(1400, 1)>>
                 /\ summary.total_pnl = Fin(2250, 1)
                 /\ summary.total_value = Fin(27750, 1)
                 /\ summary.total_pct = Fin(300, 37)

\* the summary of the default portfolio has been shown
C22_Witness ==
    /\ pc = "render_block"
    /\ summary.state = "shown"
    /\ price_data = ScenarioData
    /\ quantities = ScenarioQuantities
    /\ summary.total_pnl = Fin(2250, 1)

(***************************************************************************)
(* init_state and update_state                                             *)
(***************************************************************************)
Updated == \E i \in 1..Len(called) : called[i] = "update_state"
ActiveTickers == {session_state["active_tickers"][i] :
                     i \in 1..Len(session_state["active_tickers"])}
\* the rows of the portfolio table whose ticker is t
RowsOf(t) ==
    {r \in 1..Len(portfolio) :
        ~portfolio[r]["Ticker"].missing /\ Strip(portfolio[r]["Ticker"].text) = t}
\* the whole-number quantity of row r, 0 when the cell is missing
QuantityOfRow(r) ==
    IF portfolio[r]["Quantity"].missing THEN 0
    ELSE Trunc(portfolio[r]["Quantity"].number)

\* C23: after update_state, every active ticker is a key of
\* active_quantities and its value is the quantity of a portfolio row that
\* carries this ticker (0 when that row's quantity is missing), never the
\* quantity of a row without a ticker or of another ticker's row.
C23_QuantityOfOwnRow ==
    Updated =>
        \A t \in ActiveTickers :
            /\ t \in DOMAIN session_state["active_quantities"]
            /\ \E r \in RowsOf(t) :
                  session_state["active_quantities"][t] = QuantityOfRow(r)

SessionKeys == {"active_tickers", "active_quantities", "active_period",
                "active_interval", "data"}

\* the session fields agree with one another and with the last call of
\* ensure_prices
SessionConsistent ==
    IF called = <<>>
    THEN DOMAIN session_state = {} /\ calls = 0
    ELSE /\ DOMAIN session_state = SessionKeys
         /\ fetch_pc = "returned"
         /\ tickers = session_state["active_tickers"]
         /\ request = Request(session_state["active_period"],
                              session_state["active_interval"])
         /\ session_state["data"] = prices
         /\ DOMAIN session_state["active_quantities"] = ActiveTickers

\* C24: after any sequence of init_state and update_state calls the five
\* session fields are all set, data is what the last call of ensure_prices
\* returned and that call was made for the active tickers, period and
\* interval, and the keys of active_quantities are the active tickers; a
\* call of init_state on a session that is already initialized changes none
\* of the fields and calls neither ensure_prices nor the services.
C24_SessionFields ==
    /\ []SessionConsistent
    /\ [][(called' = Append(called, "init_state")
              /\ "active_tickers" \in DOMAIN session_state)
          => /\ session_state' = session_state
             /\ calls' = calls
             /\ downloads' = downloads
             /\ lookups' = lookups
             /\ sector_cache' = sector_cache]_vars

\* init_state has been called on a session that update_state had set up
\* with a ticker that has data, for another period than the default
C24_Witness ==
    /\ Len(called) >= 2
    /\ called[Len(called)] = "init_state"
    /\ called[Len(called) - 1] = "update_state"
    /\ session_state["active_period"] # "1mo"
    /\ session_state["data"] # <<>>
    /\ portfolio # <<>>
====
